---- MODULE Spec2Model ----
(***************************************************************************)
(* itx-cli: the `ticket activities` aggregation (src/commands/ticket.ts)   *)
(* and the HTML normalizer htmlToText it uses.                             *)
(*                                                                         *)
(* A JavaScript string is a sequence of characters; a character is a TLA+  *)
(* string.  ASCII characters are themselves ("a", "<", "\n"); characters   *)
(* outside ASCII carry their Unicode name ("NBSP" is U+00A0, "LDQUO" is    *)
(* U+201C, ...).                                                           *)
(***************************************************************************)
EXTENDS Integers, Sequences, FiniteSets, TLC

(***************************************************************************)
(* Characters                                                              *)
(***************************************************************************)
CR == "CR"                \* U+000D
TAB == "TAB"              \* U+0009
NL == "\n"                \* U+000A

\* What the regular expression class \s and String.prototype.trim treat as
\* white space (the members an input of the model can hold).
WhiteSpace == {" ", TAB, NL, CR, "FF", "VT", "NBSP", "BOM", "LS", "PS"}

\* What ^ and $ treat as a line break under the m flag.
LineTerminator == {NL, CR, "LS", "PS"}

\* The class [\uFEFF\u200B\u200C\u200D\u00AD\u00A0] of htmlToText.
Invisible == {"BOM", "ZWSP", "ZWNJ", "ZWJ", "SHY", "NBSP"}

Digit == {"0", "1", "2", "3", "4", "5", "6", "7", "8", "9"}

\* The lower case of a letter: the i flag of a pattern, toLowerCase of a
\* string.
Lower(c) ==
  CASE c = "A" -> "a" [] c = "B" -> "b" [] c = "C" -> "c" [] c = "D" -> "d"
    [] c = "E" -> "e" [] c = "F" -> "f" [] c = "G" -> "g" [] c = "H" -> "h"
    [] c = "I" -> "i" [] c = "J" -> "j" [] c = "K" -> "k" [] c = "L" -> "l"
    [] c = "M" -> "m" [] c = "N" -> "n" [] c = "O" -> "o" [] c = "P" -> "p"
    [] c = "Q" -> "q" [] c = "R" -> "r" [] c = "S" -> "s" [] c = "T" -> "t"
    [] c = "U" -> "u" [] c = "V" -> "v" [] c = "W" -> "w" [] c = "X" -> "x"
    [] c = "Y" -> "y" [] c = "Z" -> "z"
    [] OTHER -> c

(***************************************************************************)
(* Matching at a position                                                  *)
(***************************************************************************)
\* s holds the literal w at position i.
IsAt(s, i, w) ==
  /\ i >= 1
  /\ i + Len(w) - 1 <= Len(s)
  /\ \A k \in 1..Len(w) : s[i + k - 1] = w[k]

\* The same, ignoring case (w is written in lower case).
IsAtCI(s, i, w) ==
  /\ i >= 1
  /\ i + Len(w) - 1 <= Len(s)
  /\ \A k \in 1..Len(w) : Lower(s[i + k - 1]) = w[k]

\* The least j >= i with s[j] = ">", or 0.
FirstGt(s, i) ==
  LET js == {j \in i..Len(s) : s[j] = ">"}
  IN  IF js = {} THEN 0 ELSE CHOOSE j \in js : \A k \in js : j <= k

\* The least k >= i at which s holds w ignoring case, or 0.
FirstAtCI(s, i, w) ==
  LET ks == {k \in i..Len(s) : IsAtCI(s, k, w)}
  IN  IF ks = {} THEN 0 ELSE CHOOSE k \in ks : \A j \in ks : k <= j

\* The length of the longest run of characters of cs that starts at i.
RunLen(s, i, cs) ==
  LET stops == {j \in i..Len(s) : s[j] \notin cs}
  IN  IF i > Len(s) THEN 0
      ELSE IF stops = {} THEN Len(s) - i + 1
      ELSE (CHOOSE j \in stops : \A k \in stops : j <= k) - i

BlockTagNames ==
  { <<"p">>, <<"d","i","v">>, <<"t","r">>, <<"l","i">>, <<"u","l">>,
    <<"o","l">>, <<"b","l","o","c","k","q","u","o","t","e">>,
    <<"h","1">>, <<"h","2">>, <<"h","3">>, <<"h","4">>, <<"h","5">>,
    <<"h","6">> }

\* The named entities htmlToText decodes, in the order of its replace calls.
Entities ==
  << [pat |-> <<"&","n","b","s","p",";">>,     rep |-> <<" ">>],
     [pat |-> <<"&","a","m","p",";">>,         rep |-> <<"&">>],
     [pat |-> <<"&","l","t",";">>,             rep |-> <<"<">>],
     [pat |-> <<"&","g","t",";">>,             rep |-> <<">">>],
     [pat |-> <<"&","q","u","o","t",";">>,     rep |-> <<"\"">>],
     [pat |-> <<"&","#","3","9",";">>,         rep |-> <<"'">>],
     [pat |-> <<"&","l","d","q","u","o",";">>, rep |-> <<"LDQUO">>],
     [pat |-> <<"&","r","d","q","u","o",";">>, rep |-> <<"RDQUO">>],
     [pat |-> <<"&","l","s","q","u","o",";">>, rep |-> <<"LSQUO">>],
     [pat |-> <<"&","r","s","q","u","o",";">>, rep |-> <<"RSQUO">>],
     [pat |-> <<"&","m","d","a","s","h",";">>, rep |-> <<"MDASH">>],
     [pat |-> <<"&","n","d","a","s","h",";">>, rep |-> <<"NDASH">>] >>

\* The length of the match of pattern pat that starts at position i of s, or 0
\* when the pattern does not match there.  No pattern matches the empty string.
MatchLen(pat, s, i) ==
  CASE pat = "crlf" ->                     \* /\r\n?/
         IF s[i] # CR THEN 0
         ELSE IF i < Len(s) /\ s[i + 1] = NL THEN 2 ELSE 1
    [] pat = "style" ->                    \* /<style[^>]*>[\s\S]*?<\/style>/i
         IF ~IsAtCI(s, i, <<"<","s","t","y","l","e">>) THEN 0
         ELSE LET j == FirstGt(s, i + 6)
                  k == IF j = 0 THEN 0
                       ELSE FirstAtCI(s, j + 1,
                                      <<"<","/","s","t","y","l","e",">">>)
              IN  IF k = 0 THEN 0 ELSE k + 8 - i
    [] pat = "br" ->                       \* /<br\s*\/?>/i
         IF ~IsAtCI(s, i, <<"<","b","r">>) THEN 0
         ELSE LET j == i + 3 + RunLen(s, i + 3, WhiteSpace)
                  k == IF j <= Len(s) /\ s[j] = "/" THEN j + 1 ELSE j
              IN  IF k <= Len(s) /\ s[k] = ">" THEN k - i + 1 ELSE 0
    [] pat = "pp" ->                       \* /<\/p><p[^>]*>/i
         IF ~IsAtCI(s, i, <<"<","/","p",">","<","p">>) THEN 0
         ELSE LET j == FirstGt(s, i + 6)
              IN  IF j = 0 THEN 0 ELSE j - i + 1
    [] pat = "block" ->   \* /<\/?(p|div|tr|li|ul|ol|blockquote|h[1-6])[^>]*>/i
         IF s[i] # "<" THEN 0
         ELSE LET k == IF i < Len(s) /\ s[i + 1] = "/" THEN i + 2 ELSE i + 1
                  j == FirstGt(s, k + 1)
              IN  IF (\E n \in BlockTagNames : IsAtCI(s, k, n)) /\ j # 0
                  THEN j - i + 1 ELSE 0
    [] pat = "tag" ->                      \* /<[^>]+>/
         IF s[i] # "<" THEN 0
         ELSE LET j == FirstGt(s, i + 1)
              IN  IF j >= i + 2 THEN j - i + 1 ELSE 0
    [] pat = "numref" ->                   \* /&#\d+;/
         IF ~IsAt(s, i, <<"&","#">>) THEN 0
         ELSE LET n == RunLen(s, i + 2, Digit)
              IN  IF n >= 1 /\ i + 2 + n <= Len(s) /\ s[i + 2 + n] = ";"
                  THEN n + 3 ELSE 0
    [] pat = "invisible" ->                \* /[\uFEFF\u200B\u200C\u200D\u00AD\u00A0]/
         IF s[i] \in Invisible THEN 1 ELSE 0
    [] pat = "blankline" ->                \* /^[ \t]+$/m
         LET n == RunLen(s, i, {" ", TAB})
         IN  IF /\ (i = 1 \/ s[i - 1] \in LineTerminator)
                /\ n >= 1
                /\ (i + n > Len(s) \/ s[i + n] \in LineTerminator)
             THEN n ELSE 0
    [] pat = "nl3" ->                      \* /\n{3,}/
         LET n == RunLen(s, i, {NL})
         IN  IF n >= 3 THEN n ELSE 0

\* String.prototype.replace with a global regular expression: the matches are
\* found left to right, each search resuming where the last match ended, and
\* the replacement text is not searched again.
RECURSIVE ReplaceFrom(_, _, _, _)
ReplaceFrom(pat, rep, s, i) ==
  IF i > Len(s) THEN <<>>
  ELSE LET n == MatchLen(pat, s, i)
       IN  IF n > 0 THEN rep \o ReplaceFrom(pat, rep, s, i + n)
           ELSE <<s[i]>> \o ReplaceFrom(pat, rep, s, i + 1)

ReplaceAll(pat, rep, s) == ReplaceFrom(pat, rep, s, 1)

\* The same for a literal pattern (an entity).
RECURSIVE ReplaceLitFrom(_, _, _, _)
ReplaceLitFrom(w, rep, s, i) ==
  IF i > Len(s) THEN <<>>
  ELSE IF IsAt(s, i, w) THEN rep \o ReplaceLitFrom(w, rep, s, i + Len(w))
  ELSE <<s[i]>> \o ReplaceLitFrom(w, rep, s, i + 1)

ReplaceLit(w, rep, s) == ReplaceLitFrom(w, rep, s, 1)

\* The twelve entity replacements, applied one after the other from number k.
RECURSIVE DecodeFrom(_, _)
DecodeFrom(s, k) ==
  IF k > Len(Entities) THEN s
  ELSE DecodeFrom(ReplaceLit(Entities[k].pat, Entities[k].rep, s), k + 1)

DecodeEntities(s) == DecodeFrom(s, 1)

\* String.prototype.trim
Trim(s) ==
  LET keep == {i \in 1..Len(s) : s[i] \notin WhiteSpace}
  IN  IF keep = {} THEN <<>>
      ELSE LET lo == CHOOSE i \in keep : \A j \in keep : i <= j
               hi == CHOOSE i \in keep : \A j \in keep : i >= j
           IN  SubSeq(s, lo, hi)

\* The tag passes of htmlToText: line ends, <style> blocks, <br>, </p><p>,
\* block tags, every other tag.
StripTags(s) ==
  ReplaceAll("tag", <<>>,
    ReplaceAll("block", <<NL>>,
      ReplaceAll("pp", <<NL>>,
        ReplaceAll("br", <<NL>>,
          ReplaceAll("style", <<>>,
            ReplaceAll("crlf", <<NL>>, s))))))

\* A pass that leaves the numeric character references in the text.
KeepNumericRefs(s) == s

\* The numeric character references that are left after the entities.
DropNumericRefs(s) == ReplaceAll("numref", <<>>, s)

\* The white space passes with the runs of newlines shortened before the
\* blank lines are emptied.
CollapseSpaceRunsFirst(s) ==
  Trim(ReplaceAll("blankline", <<>>,
         ReplaceAll("nl3", <<NL, NL>>,
           ReplaceAll("invisible", <<" ">>, s))))

\* The white space passes: invisible characters, blank lines, runs of newlines,
\* trim.
CollapseSpace(s) ==
  Trim(ReplaceAll("nl3", <<NL, NL>>,
         ReplaceAll("blankline", <<>>,
           ReplaceAll("invisible", <<" ">>, s))))

\* The chain with the numeric references dropped before the entities are
\* decoded.
htmlToTextRefsFirst(html) ==
  CollapseSpace(DecodeEntities(ReplaceAll("numref", <<>>, StripTags(html))))

htmlToText(html) ==
  CollapseSpace(DropNumericRefs(DecodeEntities(StripTags(html))))

(***************************************************************************)
(* `ticket activities <id>`: the data                                      *)
(***************************************************************************)
LINK_CONVERSATION == 13
LINK_CASE == 14
CALL == 4
EMAIL == 11
EMAIL_CONVERSATION == 21

NumActs == 2    \* the activities of the server are 1..NumActs
MaxTs == 2      \* the creation times are 1..MaxTs milliseconds
MaxLinks == 2   \* the most links a ticket record holds
MaxConv == 2    \* the most activities one conversation search returns

ActIds == 1..NumActs
TicketEact == NumActs + 1      \* the eactId of the ticket
OtherEact == NumActs + 2       \* the eactId of some other ticket
TicketId == "42"               \* the <id> argument

ActivityTypes == {CALL, EMAIL, EMAIL_CONVERSATION}

\* creationTs: absent, a string Date cannot parse, or a time in milliseconds.
Timestamps ==
  {[kind |-> "missing", ms |-> 0], [kind |-> "unparseable", ms |-> 0]}
    \cup {[kind |-> "time", ms |-> t] : t \in 1..MaxTs}

\* The `texts` of a ticket record: absent, or a list of comments.
TextsValues ==
  { [defined |-> FALSE, list |-> <<>>],
    [defined |-> TRUE, list |-> <<>>],
    [defined |-> TRUE,
     list |-> << <<"<", "p", ">", "H", "i", " ", "&", "a", "m", "p", ";",
                   " ", "y", "o", "<", "/", "p", ">">>,
                 <<" ", "o", "k", " ">> >>] }

\* What GET /rest/itxems/cases answers: an empty list, an empty value, or a
\* ticket record.
NoTexts == [defined |-> FALSE, list |-> <<>>]

CaseResponses ==
  {[shape |-> "emptylist", texts |-> NoTexts],
   [shape |-> "empty", texts |-> NoTexts]}
    \cup {[shape |-> "record", texts |-> t] : t \in TextsValues}

Links ==
  [type : {LINK_CONVERSATION, LINK_CASE}, from : ActIds,
   to : {TicketEact, OtherEact}]

\* The sequences over S of length at most n.
RECURSIVE SeqsUpTo(_, _)
SeqsUpTo(S, n) ==
  IF n = 0 THEN {<<>>}
  ELSE LET shorter == SeqsUpTo(S, n - 1)
       IN  shorter \cup {Append(q, x) : q \in shorter, x \in S}

IsInjective(q) == \A i, j \in 1..Len(q) : q[i] = q[j] => i = j

Range(q) == {q[i] : i \in 1..Len(q)}

\* What POST /rest/itxems/cases/search answers: no record, or the ticket with
\* its links.
FullCaseResponses ==
  {[found |-> FALSE, links |-> <<>>]}
    \cup {[found |-> TRUE, links |-> l] : l \in SeqsUpTo(Links, MaxLinks)}

\* What the batch lookup answers for the identifiers ids: the activities it
\* finds among them, each once, in any order.
BatchResponses(ids) ==
  {q \in SeqsUpTo(Range(ids), Cardinality(Range(ids))) : IsInjective(q)}

\* What a conversation search answers: activities of the server, each once.
ConvResponses == {q \in SeqsUpTo(ActIds, MaxConv) : IsInjective(q)}

\* What GET /rest/itxems/emailcontent holds for an email: HTML text, or a JSON
\* value that is no string.
BodyContent(id) ==
  CASE id % 4 = 1 -> [string |-> TRUE,
                      val |-> <<"A","&","a","m","p",";","B","<","b","r",">">>]
    [] id % 4 = 2 -> [string |-> TRUE,
                      val |-> <<"<","b",">","&","n","b","s","p",";","<","/","b",">">>]
    [] id % 4 = 3 -> [string |-> FALSE, val |-> <<>>]
    [] id % 4 = 0 -> [string |-> TRUE,
                      val |-> <<"<","p",">","H","i","<","/","p",">",
                                "<","p",">","A","<","/","p",">">>]

NoBody == [set |-> FALSE, val |-> <<>>]

MaxFrags == 3

\* The pieces an input is made of.
Pieces ==
  << <<"&","l","t",";">>,
     <<"&","g","t",";">>,
     <<"&","a","m","p",";">>,
     <<"n","b","s","p",";">>,
     <<"b">>,
     <<"A">>,
     <<"B">>,
     <<"&","#","1","6","9",";">>,
     <<"&","#","3","9",";">>,
     <<"&","#","0","3","9",";">>,
     <<"<","p",">">>,
     <<NL>>,
     <<" ">>,
     <<"<","b","r",">">> >>

VARIABLES
  pc,           \* where the action handler is
  json,         \* opts.json
  resolved,     \* ItxClient.resolved
  db,           \* the server's activities: eactId -> type and creation time
  caseData,     \* what the ticket fetch answered (shape "unset" before)
  fullCase,     \* what the search of step 2 answered
  actResult,    \* what the batch lookup of step 4 answered
  expanded,     \* what each conversation search answered, in order
  failed,       \* the number of the request that threw, 0 when none did
  activities,   \* the working list (eactIds; the rest of a record is db's)
  convs,        \* emailConversations
  convIdx,      \* the conversation whose search is awaited
  emailActs,    \* emailActivities
  fetch,        \* the state of each body fetch of emailActs
  emailBodies,  \* the Map emailBodies
  requests,     \* the HTTP requests sent, in order
  stdout,       \* what console.log wrote
  stderr,       \* what console.error wrote
  exitCode,     \* -1 while the process runs
  html,         \* the input of htmlToText
  nfrags,       \* the number of pieces html was made of
  phase,        \* "build", "once" (text is set), "twice" (text2 is set)
  text,         \* htmlToText(html)
  text2,        \* htmlToText(text)
  startTs,      \* the start of a call, in milliseconds
  endTs,        \* the end of a call, in milliseconds
  duration,     \* what formatDuration returned for the call
  dphase,       \* "ready", "done" (duration is set)
  activeEndpoint,  \* the stored config key activeEndpoint
  endpoint,        \* ItxClient.endpoint
  clientResolved,  \* ItxClient.resolved
  calls,           \* the calls of request() and resolveEndpoint() on the client
  fetches,         \* what the client has done, in order: fetches, resolutions
  store,           \* the stored config: one value for each key
  lastOp,          \* the last call on the config: its name, arguments, result
  shown,           \* the lines `config show` has written
  cachedFor,       \* the settings the stored activeEndpoint was resolved under
  client,          \* the client built last: what its constructor read, and
                   \* the state request it waits for
  cmd,             \* the command that runs: its name, arguments and options
  todo,            \* `ticket activities`: the conversations left to expand
                   \* and the email bodies left to arrive
  cpc,             \* where the action of the command is
  sent,            \* the HTTP requests the command has sent, in order
  cerr,            \* the errors the command has printed
  cexit            \* the exit status of the command, -1 while it runs

pvars == <<pc, json, resolved, db, caseData, fullCase, actResult, expanded,
           failed, activities, convs,
           convIdx, emailActs, fetch, emailBodies, requests, stdout, stderr,
           exitCode>>

hvars == <<html, nfrags, phase, text, text2>>

dvars == <<startTs, endTs, duration, dphase>>

cvars == <<activeEndpoint, endpoint, clientResolved, calls, fetches>>

rvars == <<cachedFor, client>>

svars == <<store, lastOp, shown, rvars>>

kvars == <<cmd, todo, cpc, sent, cerr, cexit>>

vars == <<pvars, hvars, dvars, cvars, svars, kvars>>

\* What each part leaves alone.
notPipeline == <<hvars, dvars, cvars, svars, kvars>>

notHtml == <<pvars, dvars, cvars, svars, kvars>>

notDuration == <<pvars, hvars, cvars, svars, kvars>>

notClient == <<pvars, hvars, dvars, svars, kvars>>

notStore == <<pvars, hvars, dvars, cvars, kvars>>

notCommand == <<pvars, hvars, dvars, cvars>>

\* A part that takes no step in a specification stays in these values.
NoDuration == [form |-> "none", minutes |-> 0, seconds |-> 0]

DurationOff ==
  /\ startTs = 0
  /\ endTs = 0
  /\ duration = NoDuration
  /\ dphase = "off"

CommandOff ==
  /\ todo = <<>>
  /\ cmd = <<>>
  /\ cpc = "off"
  /\ sent = <<>>
  /\ cerr = <<>>
  /\ cexit = -1

StoreOff ==
  /\ store = <<>>
  /\ lastOp = <<>>
  /\ shown = <<>>
  /\ cachedFor = <<>>
  /\ client = <<>>
  /\ CommandOff

ClientOff ==
  /\ activeEndpoint = <<>>
  /\ endpoint = <<>>
  /\ clientResolved = FALSE
  /\ calls = <<>>
  /\ fetches = <<>>

(***************************************************************************)
(* Array.prototype.sort with the comparator of the action                  *)
(***************************************************************************)
\* new Date(creationTs ?? 0).getTime(): an absent time is the epoch, a string
\* Date cannot parse is NaN.
GetTime(ts) ==
  CASE ts.kind = "missing" -> [nan |-> FALSE, ms |-> 0]
    [] ts.kind = "unparseable" -> [nan |-> TRUE, ms |-> 0]
    [] ts.kind = "time" -> [nan |-> FALSE, ms |-> ts.ms]

\* (a, b) => aTs - bTs as the sort reads it: a NaN result counts as +0.
Compare(a, b) ==
  LET aTs == GetTime(db[a].creationTs)
      bTs == GetTime(db[b].creationTs)
  IN  IF aTs.nan \/ bTs.nan THEN 0 ELSE aTs.ms - bTs.ms

Reverse(q) == [i \in 1..Len(q) |-> q[Len(q) + 1 - i]]

\* The length of the run that starts the array: the sort extends it while the
\* order of neighbours stays descending (desc) or non-descending.
RECURSIVE RunLength(_, _, _)
RunLength(arr, desc, idx) ==
  IF idx > Len(arr) THEN idx - 1
  ELSE LET order == Compare(arr[idx], arr[idx - 1])
       IN  IF (desc /\ order >= 0) \/ (~desc /\ order < 0) THEN idx - 1
           ELSE RunLength(arr, desc, idx + 1)

\* Binary search for the place of pivot in arr[left .. right - 1].
RECURSIVE InsertionPoint(_, _, _, _)
InsertionPoint(arr, pivot, left, right) ==
  IF left >= right THEN left
  ELSE LET mid == left + ((right - left) \div 2)
       IN  IF Compare(pivot, arr[mid]) < 0
           THEN InsertionPoint(arr, pivot, left, mid)
           ELSE InsertionPoint(arr, pivot, mid + 1, right)

\* Binary insertion of arr[start], arr[start + 1], ... into the sorted prefix.
RECURSIVE BinaryInsertionSort(_, _)
BinaryInsertionSort(arr, start) ==
  IF start > Len(arr) THEN arr
  ELSE LET pivot == arr[start]
           left == InsertionPoint(arr, pivot, 1, start)
           moved == SubSeq(arr, 1, left - 1) \o <<pivot>>
                      \o SubSeq(arr, left, start - 1)
                      \o SubSeq(arr, start + 1, Len(arr))
       IN  BinaryInsertionSort(moved, start + 1)

\* activities.sort((a, b) => aTs - bTs).  Node sorts an array shorter than 64
\* by taking its initial run (reversed when it descends) and inserting the
\* other elements by binary search.
SortActivities(arr) ==
  IF Len(arr) < 2 THEN arr
  ELSE LET desc == Compare(arr[2], arr[1]) < 0
           run == RunLength(arr, desc, 3)
           made == IF desc
                   THEN Reverse(SubSeq(arr, 1, run))
                          \o SubSeq(arr, run + 1, Len(arr))
                   ELSE arr
       IN  BinaryInsertionSort(made, run + 1)

(***************************************************************************)
(* `ticket activities <id>`: the action handler, one step per await        *)
(***************************************************************************)
Req(ep, ids) == [ep |-> ep, ids |-> ids]

IsEmail(a) == db[a].eatyId = EMAIL

IsConversation(a) == db[a].eatyId = EMAIL_CONVERSATION

\* The `from` of every link of type Case, whatever ticket it points at.
LinkedIdsAnyTarget(links, eactId) ==
  LET caseLinks == SelectSeq(links, LAMBDA l : l.type = LINK_CASE)
  IN  [i \in 1..Len(caseLinks) |-> caseLinks[i].from]

\* Steps 3: the `from` of the links of type Case that point at the ticket.
LinkedActivityIds(links, eactId) ==
  LET caseLinks ==
        SelectSeq(links, LAMBDA l : l.type = LINK_CASE /\ l.to = eactId)
  IN  [i \in 1..Len(caseLinks) |-> caseLinks[i].from]

\* An expansion that leaves the container in the working list.
ExpandKeepContainer(acts, conv, emails) == acts \o emails

\* Step 5, one conversation: the container leaves the working list and what
\* its search returned is appended.
ExpandConversation(acts, conv, emails) ==
  SelectSeq(acts, LAMBDA a : a # conv) \o emails

\* typeof html === "string" ? htmlToText(html) : ""
StoredBody(content) ==
  [set |-> TRUE, val |-> IF content.string THEN htmlToText(content.val) ELSE <<>>]

\* The value emailBodies.set stores for each email whose content arrives.
ArrivedBody == [id \in ActIds |-> StoredBody(BodyContent(id))]

\* The comments in the opposite order.
CommentsReversed(t) == IF t.defined THEN Reverse(t.list) ELSE <<>>

\* comments: texts ?? []
CommentsOut(t) == IF t.defined THEN t.list ELSE <<>>

\* The comments as the rendered list prints them: the text of each through
\* htmlToText, in the order of the list.
CommentsRendered(t) ==
  [i \in 1..Len(CommentsOut(t)) |-> htmlToText(CommentsOut(t)[i])]

\* One activity of the --json output: the record plus _emailBody.
Enriched(a) ==
  [eactId |-> a, eatyId |-> db[a].eatyId, creationTs |-> db[a].creationTs,
   body |-> emailBodies[a]]

\* One activity of the rendered list: the body of an email is printed when
\* it is not empty.
Rendered(a) ==
  [eactId |-> a, eatyId |-> db[a].eatyId, creationTs |-> db[a].creationTs,
   body |-> IF IsEmail(a) /\ emailBodies[a].set /\ emailBodies[a].val # <<>>
            THEN emailBodies[a] ELSE NoBody]

\* What the action writes once every body fetch has settled.
Output ==
  IF json
  THEN << [kind |-> "json",
           acts |-> [i \in 1..Len(activities) |-> Enriched(activities[i])],
           comments |-> CommentsOut(caseData.texts)] >>
  ELSE IF Len(activities) = 0 /\ Len(CommentsOut(caseData.texts)) = 0
  THEN << [kind |-> "none", acts |-> <<>>, comments |-> <<>>] >>
  ELSE (IF Len(activities) > 0
        THEN << [kind |-> "activities",
                 acts |-> [i \in 1..Len(activities) |-> Rendered(activities[i])],
                 comments |-> <<>>] >>
        ELSE <<>>)
       \o
       (IF Len(CommentsOut(caseData.texts)) > 0
        THEN << [kind |-> "comments", acts |-> <<>>,
                 comments |-> CommentsRendered(caseData.texts)] >>
        ELSE <<>>)

HtmlOff ==
  /\ html = <<>>
  /\ nfrags = 0
  /\ phase = "off"
  /\ text = <<>>
  /\ text2 = <<>>

PipelineOff ==
  /\ pc = "off"
  /\ json = FALSE
  /\ resolved = FALSE
  /\ db = [a \in ActIds |-> [eatyId |-> EMAIL,
                              creationTs |-> [kind |-> "missing", ms |-> 0]]]
  /\ caseData = [shape |-> "unset", texts |-> NoTexts]
  /\ fullCase = [found |-> FALSE, links |-> <<>>]
  /\ actResult = <<>>
  /\ expanded = <<>>
  /\ failed = 0
  /\ activities = <<>>
  /\ convs = <<>>
  /\ convIdx = 0
  /\ emailActs = <<>>
  /\ fetch = <<>>
  /\ emailBodies = [a \in ActIds |-> NoBody]
  /\ requests = <<>>
  /\ stdout = <<>>
  /\ stderr = <<>>
  /\ exitCode = -1

Init ==
  /\ pc = "idle"
  /\ json \in BOOLEAN
  /\ resolved \in BOOLEAN
  /\ db \in [ActIds -> [eatyId : ActivityTypes, creationTs : Timestamps]]
  /\ caseData = [shape |-> "unset", texts |-> NoTexts]
  /\ fullCase = [found |-> FALSE, links |-> <<>>]
  /\ actResult = <<>>
  /\ expanded = <<>>
  /\ failed = 0
  /\ activities = <<>>
  /\ convs = <<>>
  /\ convIdx = 0
  /\ emailActs = <<>>
  /\ fetch = <<>>
  /\ emailBodies = [a \in ActIds |-> NoBody]
  /\ requests = <<>>
  /\ stdout = <<>>
  /\ stderr = <<>>
  /\ exitCode = -1
  /\ HtmlOff
  /\ DurationOff
  /\ ClientOff
  /\ StoreOff

\* printError(...); process.exit(1)
Fail(message) ==
  /\ stderr' = Append(stderr, message)
  /\ exitCode' = 1
  /\ pc' = "exited"

\* The sort, then the body fetches: every emailcontent request is sent before
\* the handler waits for any of them.
SortAndFetch(acts) ==
  LET sorted == SortActivities(acts)
      emails == SelectSeq(sorted, IsEmail)
  IN  /\ activities' = sorted
      /\ emailActs' = emails
      /\ fetch' = [i \in 1..Len(emails) |-> "pending"]
      /\ requests' = requests
           \o [i \in 1..Len(emails) |-> Req("emailcontent", <<emails[i]>>)]
      /\ pc' = "bodies"

\* The command starts: the first request() resolves the endpoint when the
\* client has none, and sends the ticket fetch otherwise.
Start ==
  /\ pc = "idle"
  /\ IF resolved
     THEN /\ requests' = Append(requests, Req("cases", <<>>))
          /\ pc' = "case"
     ELSE /\ requests' = Append(requests, Req("state", <<>>))
          /\ pc' = "resolving"
  /\ UNCHANGED <<json, resolved, db, caseData, failed, activities, convs,
                 convIdx, emailActs, fetch, emailBodies, stdout, stderr,
                 exitCode>>
  /\ UNCHANGED fullCase
  /\ UNCHANGED <<actResult, expanded>>
  /\ UNCHANGED notPipeline

\* resolveEndpoint() returns; the ticket fetch is sent.
Resolved ==
  /\ pc = "resolving"
  /\ resolved' = TRUE
  /\ requests' = Append(requests, Req("cases", <<>>))
  /\ pc' = "case"
  /\ UNCHANGED <<json, db, caseData, failed, activities, convs, convIdx,
                 emailActs, fetch, emailBodies, stdout, stderr, exitCode>>
  /\ UNCHANGED fullCase
  /\ UNCHANGED <<actResult, expanded>>
  /\ UNCHANGED notPipeline

\* A catch that reports the error and lets the action return.
RequestFailsExitZero ==
  /\ pc \in {"resolving", "case", "fullcase", "acts", "conv"}
  /\ failed' = Len(requests)
  /\ stderr' = Append(stderr, [kind |-> "error", id |-> ""])
  /\ exitCode' = 0
  /\ pc' = "exited"
  /\ UNCHANGED <<json, resolved, db, caseData, activities, convs, convIdx,
                 emailActs, fetch, emailBodies, requests, stdout>>
  /\ UNCHANGED fullCase
  /\ UNCHANGED <<actResult, expanded>>
  /\ UNCHANGED notPipeline

\* A request of the mandatory chain throws; the catch of the action reports
\* it and exits.
RequestFails ==
  /\ pc \in {"resolving", "case", "fullcase", "acts", "conv"}
  /\ failed' = Len(requests)
  /\ Fail([kind |-> "error", id |-> ""])
  /\ UNCHANGED <<json, resolved, db, caseData, activities, convs, convIdx,
                 emailActs, fetch, emailBodies, requests, stdout>>
  /\ UNCHANGED fullCase
  /\ UNCHANGED <<actResult, expanded>>
  /\ UNCHANGED notPipeline

\* Step 1 without the test of caseData: reading eactId of no record throws,
\* and the catch reports that error.
CaseResponseUnchecked(r) ==
  /\ pc = "case"
  /\ caseData' = r
  /\ IF r.shape # "record"
     THEN /\ Fail([kind |-> "error", id |-> ""])
          /\ UNCHANGED requests
     ELSE /\ requests' = Append(requests, Req("cases/search", <<TicketEact>>))
          /\ pc' = "fullcase"
          /\ UNCHANGED <<stderr, exitCode>>
  /\ UNCHANGED <<json, resolved, db, failed, activities, convs, convIdx,
                 emailActs, fetch, emailBodies, stdout>>
  /\ UNCHANGED fullCase
  /\ UNCHANGED <<actResult, expanded>>
  /\ UNCHANGED notPipeline

\* Step 1: the ticket fetch answers.
CaseResponse(r) ==
  /\ pc = "case"
  /\ caseData' = r
  /\ IF r.shape # "record"
     THEN /\ Fail([kind |-> "notfound", id |-> TicketId])
          /\ UNCHANGED requests
     ELSE /\ requests' = Append(requests, Req("cases/search", <<TicketEact>>))
          /\ pc' = "fullcase"
          /\ UNCHANGED <<stderr, exitCode>>
  /\ UNCHANGED <<json, resolved, db, failed, activities, convs, convIdx,
                 emailActs, fetch, emailBodies, stdout>>
  /\ UNCHANGED fullCase
  /\ UNCHANGED <<actResult, expanded>>
  /\ UNCHANGED notPipeline

\* Steps 2-4: the ticket with its links answers.
FullCaseResponse(r) ==
  /\ pc = "fullcase"
  /\ LET ids == LinkedActivityIds(r.links, TicketEact)
     IN  IF Len(ids) > 0
         THEN /\ requests' = Append(requests, Req("activities/search", ids))
              /\ pc' = "acts"
              /\ UNCHANGED <<activities, emailActs, fetch>>
         ELSE SortAndFetch(<<>>)
  /\ UNCHANGED <<json, resolved, db, caseData, failed, convs, convIdx,
                 emailBodies, stdout, stderr, exitCode>>
  /\ fullCase' = r
  /\ UNCHANGED <<actResult, expanded>>
  /\ UNCHANGED notPipeline

\* A step 4 that starts the body fetches of the emails of the batch together
\* with the first expansion.
ActsResponseBodiesFirst(batch) ==
  /\ pc = "acts"
  /\ LET found == SelectSeq(batch, IsConversation)
         emails == SelectSeq(batch, IsEmail)
     IN  IF Len(found) > 0
         THEN /\ activities' = batch
              /\ convs' = found
              /\ convIdx' = 1
              /\ requests' =
                   (requests
                      \o [i \in 1..Len(emails) |-> Req("emailcontent", <<emails[i]>>)])
                   \o << Req("conversation", <<found[1]>>) >>
              /\ pc' = "conv"
              /\ UNCHANGED <<emailActs, fetch>>
         ELSE /\ SortAndFetch(batch)
              /\ UNCHANGED <<convs, convIdx>>
  /\ UNCHANGED <<json, resolved, db, caseData, failed, emailBodies, stdout,
                 stderr, exitCode>>
  /\ UNCHANGED fullCase
  /\ actResult' = batch
  /\ UNCHANGED expanded
  /\ UNCHANGED notPipeline

\* Step 4: the batch lookup answers.
ActsResponse(batch) ==
  /\ pc = "acts"
  /\ LET found == SelectSeq(batch, IsConversation)
     IN  IF Len(found) > 0
         THEN /\ activities' = batch
              /\ convs' = found
              /\ convIdx' = 1
              /\ requests' = Append(requests, Req("conversation", <<found[1]>>))
              /\ pc' = "conv"
              /\ UNCHANGED <<emailActs, fetch>>
         ELSE /\ SortAndFetch(batch)
              /\ UNCHANGED <<convs, convIdx>>
  /\ UNCHANGED <<json, resolved, db, caseData, failed, emailBodies, stdout,
                 stderr, exitCode>>
  /\ UNCHANGED fullCase
  /\ actResult' = batch
  /\ UNCHANGED expanded
  /\ UNCHANGED notPipeline

\* Step 5: the search of conversation convs[convIdx] answers.
ConvResponse(emails) ==
  /\ pc = "conv"
  /\ LET acts == ExpandConversation(activities, convs[convIdx], emails)
     IN  IF convIdx < Len(convs)
         THEN /\ activities' = acts
              /\ convIdx' = convIdx + 1
              /\ requests' =
                   Append(requests, Req("conversation", <<convs[convIdx + 1]>>))
              /\ UNCHANGED <<pc, emailActs, fetch>>
         ELSE /\ SortAndFetch(acts)
              /\ UNCHANGED convIdx
  /\ UNCHANGED <<json, resolved, db, caseData, failed, convs, emailBodies,
                 stdout, stderr, exitCode>>
  /\ UNCHANGED fullCase
  /\ expanded' = Append(expanded, emails)
  /\ UNCHANGED actResult
  /\ UNCHANGED notPipeline

\* The body fetch of emailActs[i] answers.
BodyArrives(i) ==
  /\ pc = "bodies"
  /\ fetch[i] = "pending"
  /\ fetch' = [fetch EXCEPT ![i] = "fulfilled"]
  /\ emailBodies' = [emailBodies EXCEPT ![emailActs[i]] = ArrivedBody[emailActs[i]]]
  /\ UNCHANGED <<pc, json, resolved, db, caseData, failed, activities, convs,
                 convIdx, emailActs, requests, stdout, stderr, exitCode>>
  /\ UNCHANGED fullCase
  /\ UNCHANGED <<actResult, expanded>>
  /\ UNCHANGED notPipeline

\* A body fetch whose error reaches the catch of the action: Promise.all
\* rejects at the first failure.
BodyFailsAborts(i) ==
  /\ pc = "bodies"
  /\ fetch[i] = "pending"
  /\ fetch' = [fetch EXCEPT ![i] = "rejected"]
  /\ Fail([kind |-> "error", id |-> ""])
  /\ UNCHANGED <<json, resolved, db, caseData, failed, activities, convs,
                 convIdx, emailActs, emailBodies, requests, stdout>>
  /\ UNCHANGED fullCase
  /\ UNCHANGED <<actResult, expanded>>
  /\ UNCHANGED notPipeline

\* The body fetch of emailActs[i] throws: the catch drops the error.
BodyFails(i) ==
  /\ pc = "bodies"
  /\ fetch[i] = "pending"
  /\ fetch' = [fetch EXCEPT ![i] = "rejected"]
  /\ UNCHANGED <<pc, json, resolved, db, caseData, failed, activities, convs,
                 convIdx, emailActs, emailBodies, requests, stdout, stderr,
                 exitCode>>
  /\ UNCHANGED fullCase
  /\ UNCHANGED <<actResult, expanded>>
  /\ UNCHANGED notPipeline

\* Promise.all has every fetch settled: the result is written.
Finish ==
  /\ pc = "bodies"
  /\ \A i \in 1..Len(fetch) : fetch[i] # "pending"
  /\ stdout' = stdout \o Output
  /\ exitCode' = 0
  /\ pc' = "exited"
  /\ UNCHANGED <<json, resolved, db, caseData, failed, activities, convs,
                 convIdx, emailActs, fetch, emailBodies, requests, stderr>>
  /\ UNCHANGED fullCase
  /\ UNCHANGED <<actResult, expanded>>
  /\ UNCHANGED notPipeline

\* The identifiers of the batch lookup that is awaited.
RequestedIds == IF pc = "acts" THEN requests[Len(requests)].ids ELSE <<>>

Next ==
  \/ Start
  \/ Resolved
  \/ RequestFails
  \/ \E r \in CaseResponses : CaseResponse(r)
  \/ \E r \in FullCaseResponses : FullCaseResponse(r)
  \/ \E batch \in BatchResponses(RequestedIds) : ActsResponse(batch)
  \/ \E emails \in ConvResponses : ConvResponse(emails)
  \/ \E i \in DOMAIN fetch : BodyArrives(i)
  \/ \E i \in DOMAIN fetch : BodyFails(i)
  \/ Finish

Spec == Init /\ [][Next]_vars

(***************************************************************************)
(* Properties of `ticket activities`                                       *)
(***************************************************************************)
\* The activity list and the comments the command has written.
FinalActs == IF stdout = <<>> THEN <<>> ELSE stdout[1].acts

FinalComments == IF stdout = <<>> THEN <<>> ELSE stdout[Len(stdout)].comments

\* C1: the list the command shows holds no activity of type
\* Email-Conversation, whatever the expansions returned.
C1_NoConversationShown ==
  exitCode = 0 =>
    \A i \in 1..Len(FinalActs) : FinalActs[i].eatyId # EMAIL_CONVERSATION

\* C2: the list the command shows holds each eactId at most once.
C2_NoDuplicateEactId ==
  exitCode = 0 =>
    \A i, j \in 1..Len(FinalActs) :
      FinalActs[i].eactId = FinalActs[j].eactId => i = j

\* The sort key of the specification: the creation time, or the epoch when
\* the time is missing or cannot be parsed.
SortKey(a) == IF a.creationTs.kind = "time" THEN a.creationTs.ms ELSE 0

\* C3: the list the command shows is in ascending order of the sort key.
C3_AscendingByKey ==
  exitCode = 0 =>
    \A i, j \in 1..Len(FinalActs) :
      i < j => SortKey(FinalActs[i]) <= SortKey(FinalActs[j])

\* The emails of the list the command shows.
ShownEmails == SelectSeq(FinalActs, LAMBDA a : a.eatyId = EMAIL)

\* The text the normalizer makes of the content of email id.
NormalizedBody(id) ==
  IF BodyContent(id).string THEN htmlToText(BodyContent(id).val) ELSE <<>>

\* C4: when the mandatory requests succeed the command ends without an error
\* whichever body fetches reject; every email is shown, with an empty body
\* when its fetch rejected and with its normalized body otherwise.
C4_BodyFailureTolerated ==
  (pc = "exited" /\ caseData.shape = "record" /\ failed = 0) =>
    /\ exitCode = 0
    /\ stderr = <<>>
    /\ Len(ShownEmails) = Len(emailActs)
    /\ \A k \in 1..Len(emailActs) :
         /\ ShownEmails[k].eactId = emailActs[k]
         /\ fetch[k] = "rejected" => ShownEmails[k].body.val = <<>>
         /\ fetch[k] = "fulfilled" =>
              ShownEmails[k].body.val = NormalizedBody(emailActs[k])

\* C5: when the ticket fetch answers an empty list or an empty value the
\* command writes the not-found error with the identifier, exits with a
\* status that is not zero, and has sent no request after the ticket fetch.
C5_NotFound ==
  caseData.shape \in {"emptylist", "empty"} =>
    /\ pc = "exited"
    /\ exitCode = 1
    /\ stderr = <<[kind |-> "notfound", id |-> TicketId]>>
    /\ stdout = <<>>
    /\ requests[Len(requests)].ep = "cases"
    /\ \A i \in 1..(Len(requests) - 1) : requests[i].ep = "state"

C5_Witness ==
  /\ caseData.shape = "emptylist"
  /\ pc = "exited"
  /\ Len(requests) = 2
  /\ Len(stderr) = 1

\* C6: when a request of the mandatory chain fails the command writes exactly
\* one error message, exits with a status that is not zero, has sent no
\* request after the one that failed, and has written nothing to stdout.
C6_MandatoryFailureAborts ==
  failed > 0 =>
    /\ pc = "exited"
    /\ exitCode = 1
    /\ stderr = <<[kind |-> "error", id |-> ""]>>
    /\ stdout = <<>>
    /\ Len(requests) = failed

C6_Witness ==
  /\ failed > 0
  /\ requests[failed].ep = "conversation"
  /\ convIdx = 2
  /\ exitCode = 1
  /\ Len(stderr) = 1

\* C7: the comments the command shows are the texts of the ticket fetched in
\* step 1, one for one and in the same order, or the empty list when the
\* ticket has none: with --json the texts themselves, in the rendered list
\* the plain text of each.
C7_CommentsAreTexts ==
  exitCode = 0 =>
    LET texts == IF caseData.texts.defined THEN caseData.texts.list ELSE <<>>
    IN  FinalComments
          = IF json THEN texts
            ELSE [i \in 1..Len(texts) |-> htmlToText(texts[i])]

C7_Witness ==
  /\ exitCode = 0
  /\ ~json
  /\ Len(FinalActs) = 2
  /\ caseData.texts.defined
  /\ Len(caseData.texts.list) = 2
  /\ FinalComments =
       << <<"H", "i", " ", "&", " ", "y", "o">>, <<"o", "k">> >>

(***************************************************************************)
(* The normalizer on its own: an input is put together from pieces and     *)
(* normalized once, then a second time.                                    *)
(***************************************************************************)
HtmlInit ==
  /\ html = <<>>
  /\ nfrags = 0
  /\ phase = "build"
  /\ text = <<>>
  /\ text2 = <<>>
  /\ PipelineOff
  /\ DurationOff
  /\ ClientOff
  /\ StoreOff

\* The input gets one more piece.
HtmlAppend(p) ==
  /\ phase = "build"
  /\ nfrags < MaxFrags
  /\ html' = html \o Pieces[p]
  /\ nfrags' = nfrags + 1
  /\ UNCHANGED <<phase, text, text2>>
  /\ UNCHANGED notHtml

\* The input is one named entity and nothing else.
HtmlEntity(k) ==
  /\ phase = "build"
  /\ nfrags = 0
  /\ html' = Entities[k].pat
  /\ nfrags' = MaxFrags
  /\ UNCHANGED <<phase, text, text2>>
  /\ UNCHANGED notHtml

\* The longest run of newlines and blank lines an input is given between its
\* first letter and its last.
MaxRun == 6

\* The pieces that become one newline each.
NewlineMakers == {<<NL>>, <<"<","p",">">>, <<"<","b","r",">">>}

\* The characters a line is blank with (/^[ \t]+$/gm).
Blanks == {" ", TAB}

\* The pieces a run of newlines and blank lines is written with.
RunPieces == << <<NL>>, <<" ">>, <<TAB>>, <<"<","p",">">>, <<"<","b","r",">">> >>

\* s is made of newline makers, spaces and tabs.
RECURSIVE IsNewlineRun(_)
IsNewlineRun(s) ==
  IF s = <<>> THEN TRUE
  ELSE IF s[1] \in Blanks THEN IsNewlineRun(Tail(s))
  ELSE \E m \in NewlineMakers :
         IsAt(s, 1, m) /\ IsNewlineRun(SubSeq(s, Len(m) + 1, Len(s)))

\* The number of newline makers in a run.
RECURSIVE NewlineCount(_)
NewlineCount(s) ==
  IF s = <<>> THEN 0
  ELSE IF s[1] \in Blanks THEN NewlineCount(Tail(s))
  ELSE LET m == CHOOSE m \in NewlineMakers : IsAt(s, 1, m)
       IN  1 + NewlineCount(SubSeq(s, Len(m) + 1, Len(s)))

\* The number of pieces a run is written with.
RECURSIVE RunPieceCount(_)
RunPieceCount(s) ==
  IF s = <<>> THEN 0
  ELSE IF s[1] \in Blanks THEN 1 + RunPieceCount(Tail(s))
  ELSE LET m == CHOOSE m \in NewlineMakers : IsAt(s, 1, m)
       IN  1 + RunPieceCount(SubSeq(s, Len(m) + 1, Len(s)))

\* The input starts with the letter A (not counted as a piece).
HtmlLead ==
  /\ phase = "build"
  /\ nfrags = 0
  /\ html = <<>>
  /\ html' = <<"A">>
  /\ UNCHANGED <<nfrags, phase, text, text2>>
  /\ UNCHANGED notHtml

\* The input ends with the letter B (not counted as a piece).
HtmlTrail ==
  /\ phase = "build"
  /\ nfrags <= MaxFrags
  /\ html # <<>>
  /\ html' = html \o <<"B">>
  /\ nfrags' = MaxFrags + 1
  /\ UNCHANGED <<phase, text, text2>>
  /\ UNCHANGED notHtml

Normalize ==
  /\ phase = "build"
  /\ text' = htmlToText(html)
  /\ phase' = "once"
  /\ UNCHANGED <<html, nfrags, text2>>
  /\ UNCHANGED notHtml

NormalizeAgain ==
  /\ phase = "once"
  /\ text2' = htmlToText(text)
  /\ phase' = "twice"
  /\ UNCHANGED <<html, nfrags, text>>
  /\ UNCHANGED notHtml

\* An input that starts with the letter A and goes on with newlines, block
\* tags, <br>, spaces and tabs only gets one more of them, up to MaxRun; no
\* other piece follows.
HtmlRun(p) ==
  /\ phase = "build"
  /\ nfrags <= MaxFrags
  /\ html # <<>>
  /\ html[1] = "A"
  /\ IsNewlineRun(Tail(html))
  /\ RunPieceCount(Tail(html)) < MaxRun
  /\ html' = html \o RunPieces[p]
  /\ nfrags' = MaxFrags
  /\ UNCHANGED <<phase, text, text2>>
  /\ UNCHANGED notHtml

HtmlNext ==
  \/ \E p \in 1..Len(Pieces) : HtmlAppend(p)
  \/ \E k \in 1..Len(Entities) : HtmlEntity(k)
  \/ HtmlLead
  \/ \E p \in 1..Len(RunPieces) : HtmlRun(p)
  \/ HtmlTrail
  \/ Normalize
  \/ NormalizeAgain

SpecHtml == HtmlInit /\ [][HtmlNext]_vars

(***************************************************************************)
(* Properties of the normalizer                                            *)
(***************************************************************************)
Normalized == phase \in {"once", "twice"}

\* C8: htmlToText is idempotent: normalizing its own output changes nothing,
\* for every input.
C8_Idempotent == phase = "twice" => text2 = text

\* The character each entity of the list stands for, in the order of the
\* replacements.
EntityLiteral ==
  <<" ", "&", "<", ">", "\"", "'", "LDQUO", "RDQUO", "LSQUO", "RSQUO", "MDASH",
    "NDASH">>

\* C9 as stated: an input that is one entity of the list and nothing else
\* normalizes to exactly the character the entity stands for.
C9_EveryEntityAlone ==
  Normalized =>
    \A k \in 1..Len(Entities) :
      html = Entities[k].pat => text = <<EntityLiteral[k]>>

\* C9: an input that is one entity of the list and nothing else normalizes to
\* exactly the character the entity stands for, except &nbsp;, whose space
\* the final trim removes: it normalizes to the empty string.
C9_EntityAlone ==
  Normalized =>
    \A k \in 1..Len(Entities) :
      html = Entities[k].pat =>
        text = IF k = 1 THEN <<>> ELSE <<EntityLiteral[k]>>

C9_Witness ==
  /\ phase = "once"
  /\ html = <<"&","r","s","q","u","o",";">>
  /\ text = <<"RSQUO">>

PlainChars == {"A", "B", "b"}

IsPlain(s) == \A i \in 1..Len(s) : s[i] \in PlainChars

Apostrophe39 == <<"&","#","3","9",";">>

NumericRefs ==
  {<<"&","#","1","6","9",";">>, <<"&","#","0","3","9",";">>, Apostrophe39}

\* C10 as stated: a numeric character reference between plain letters is
\* removed, whatever its number: the text is the letters alone.
C10_EveryNumericRefRemoved ==
  Normalized =>
    \A r \in NumericRefs : \A i \in 1..Len(html) :
      LET before == SubSeq(html, 1, i - 1)
          after == SubSeq(html, i + Len(r), Len(html))
      IN  (IsAt(html, i, r) /\ IsPlain(before) /\ IsPlain(after))
            => text = before \o after

\* C10: a numeric character reference between plain letters is removed and
\* never decoded, unless it is the text &#39;, which the entity pass has
\* already turned into an apostrophe.
C10_NumericRefRemoved ==
  Normalized =>
    \A r \in NumericRefs : \A i \in 1..Len(html) :
      LET before == SubSeq(html, 1, i - 1)
          after == SubSeq(html, i + Len(r), Len(html))
      IN  (IsAt(html, i, r) /\ IsPlain(before) /\ IsPlain(after))
            => text = before
                        \o (IF r = Apostrophe39 THEN <<"'">> ELSE <<>>)
                        \o after

C10_Witness ==
  /\ phase = "once"
  /\ html = <<"A","&","#","1","6","9",";","B">>
  /\ text = <<"A","B">>

\* The spaces and tabs a run starts with.
RECURSIVE LeadingBlanks(_)
LeadingBlanks(s) ==
  IF s # <<>> /\ s[1] \in Blanks THEN <<s[1]>> \o LeadingBlanks(Tail(s))
  ELSE <<>>

\* The spaces and tabs a run ends with.
RECURSIVE TrailingBlanks(_)
TrailingBlanks(s) ==
  IF s # <<>> /\ s[Len(s)] \in Blanks
  THEN TrailingBlanks(SubSeq(s, 1, Len(s) - 1)) \o <<s[Len(s)]>>
  ELSE <<>>

\* C11: the text htmlToText returns never holds three newlines in a row and
\* has no white space at either end; three or more newlines between two
\* letters, written as newlines, block tags, <br> or with lines of spaces and
\* tabs in between, come out as exactly two, between what is left of the
\* line of the first letter and of the line of the last.
C11_BlankLinesCollapsed ==
  Normalized =>
    /\ \A i \in 1..(Len(text) - 2) :
         ~(text[i] = NL /\ text[i + 1] = NL /\ text[i + 2] = NL)
    /\ text # <<>> =>
         (text[1] \notin WhiteSpace /\ text[Len(text)] \notin WhiteSpace)
    /\ (/\ Len(html) >= 2
        /\ html[1] = "A"
        /\ html[Len(html)] = "B"
        /\ LET mid == SubSeq(html, 2, Len(html) - 1)
           IN  IsNewlineRun(mid) /\ NewlineCount(mid) >= 3)
         => LET mid == SubSeq(html, 2, Len(html) - 1)
            IN  text = <<"A">> \o LeadingBlanks(mid) \o <<NL, NL>>
                         \o TrailingBlanks(mid) \o <<"B">>

\* Four newlines with a line of one space and a line of one tab in between.
C11_Witness ==
  /\ phase = "once"
  /\ html = <<"A", NL, " ", NL, TAB, "<","b","r",">", NL, "B">>
  /\ text = <<"A", NL, NL, "B">>

(***************************************************************************)
(* The duration of a call                                                  *)
(***************************************************************************)
MaxHalfSeconds == 140

\* The times a call starts and ends at: every half second up to the bound.
CallTimes == {500 * k : k \in 0..MaxHalfSeconds}

\* Math.round(x / 1000) for an integer x: the nearest integer, a half going up.
RoundSeconds(x) == (x + 500) \div 1000

\* The % of JavaScript: the remainder has the sign of the dividend.
JsRem(a, n) == IF a >= 0 THEN a % n ELSE -((-a) % n)

\* formatDuration(seconds): `${m}m ${s}s` when m > 0, `${s}s` otherwise.
formatDuration(seconds) ==
  LET m == seconds \div 60
      s == JsRem(seconds, 60)
  IN  IF m > 0
      THEN [form |-> "XmYs", minutes |-> m, seconds |-> s]
      ELSE [form |-> "Ys", minutes |-> 0, seconds |-> s]

\* The dur of the rendering of a call.
CallSeconds(start, end) == RoundSeconds(end - start)

DurationInit ==
  /\ startTs \in CallTimes
  /\ endTs \in CallTimes
  /\ duration = NoDuration
  /\ dphase = "ready"
  /\ PipelineOff
  /\ HtmlOff
  /\ ClientOff
  /\ StoreOff

\* console.log(`Duration: ${formatDuration(dur)}`)
RenderDuration ==
  /\ dphase = "ready"
  /\ duration' = formatDuration(CallSeconds(startTs, endTs))
  /\ dphase' = "done"
  /\ UNCHANGED <<startTs, endTs>>
  /\ UNCHANGED notDuration

DurationNext == RenderDuration

SpecDuration == DurationInit /\ [][DurationNext]_vars

\* C12: the duration rendered for a call denotes d = round((end - start) /
\* 1000) seconds: minutes d div 60 and seconds d mod 60 when d div 60 > 0,
\* and d seconds alone otherwise, also when the call ends before it starts.
C12_DurationDenotesSeconds ==
  dphase = "done" =>
    LET d == RoundSeconds(endTs - startTs)
    IN  IF d \div 60 > 0
        THEN /\ duration.form = "XmYs"
             /\ duration.minutes = d \div 60
             /\ duration.seconds = d % 60
             /\ 60 * duration.minutes + duration.seconds = d
        ELSE /\ duration.form = "Ys"
             /\ duration.seconds = d

(***************************************************************************)
(* ItxClient (src/lib/client.ts): request() and resolveEndpoint() called   *)
(* on one client, one step per await                                       *)
(***************************************************************************)
NumCalls == 2

Calls == 1..NumCalls

\* config.ssoEndpoint
SsoEndpoint == <<"sso", "/">>

\* The endpoints the SSO state call reports.
ReportedEndpoints == {<<"e1">>, <<"e1", "/">>, <<"e2", "/", "/">>}

\* What GET /rest/api/state answers: not ok, ok without an endpoint, or ok
\* with one.
StateResponses ==
  {[ok |-> FALSE, endpoint |-> <<>>], [ok |-> TRUE, endpoint |-> <<>>]}
    \cup {[ok |-> TRUE, endpoint |-> e] : e \in ReportedEndpoints}

\* A replace that removes every trailing slash.
RECURSIVE StripAllSlashes(_)
StripAllSlashes(url) ==
  IF url # <<>> /\ url[Len(url)] = "/"
  THEN StripAllSlashes(SubSeq(url, 1, Len(url) - 1))
  ELSE url

\* url.replace(/\/$/, "")
StripSlash(url) ==
  IF url # <<>> /\ url[Len(url)] = "/"
  THEN SubSeq(url, 1, Len(url) - 1)
  ELSE url

NewCall == [op |-> "none", pc |-> "new", ret |-> <<>>]

\* One entry of what the client has done.
Event(kind, c, auto, base, reported, value) ==
  [kind |-> kind, call |-> c, auto |-> auto, base |-> base,
   reported |-> reported, value |-> value]

\* new ItxClient() over a stored config with or without an active endpoint;
\* the first entry of fetches keeps what the constructor found.
ClientInit ==
  /\ activeEndpoint \in {<<>>, <<"e0">>}
  /\ endpoint = IF activeEndpoint # <<>> THEN activeEndpoint ELSE SsoEndpoint
  /\ clientResolved = (activeEndpoint # <<>>)
  /\ calls = [c \in Calls |-> NewCall]
  /\ fetches = <<Event("constructed", 0, FALSE, endpoint, <<>>, activeEndpoint)>>
  /\ PipelineOff
  /\ HtmlOff
  /\ DurationOff
  /\ StoreOff

\* The calls are made in the order of their numbers.
IsNext(c) == calls[c].pc = "new" /\ \A b \in 1..(c - 1) : calls[b].pc # "new"

\* resolveEndpoint() up to its await: the state fetch is sent.
SendState(c, op, auto) ==
  /\ fetches' = Append(fetches,
       Event("state", c, auto, StripSlash(SsoEndpoint), <<>>, <<>>))
  /\ calls' = [calls EXCEPT ![c] = [op |-> op, pc |-> "resolving", ret |-> <<>>]]

\* request() from `const { method ...` to its fetch: the API request is sent
\* to the endpoint the client holds now.
SendApi(c) ==
  /\ fetches' = Append(fetches, Event("api", c, FALSE, endpoint, <<>>, <<>>))
  /\ calls' = [calls EXCEPT ![c].op = "request", ![c].pc = "sent"]

\* request() is called.
CallRequest(c) ==
  /\ IsNext(c)
  /\ IF clientResolved THEN SendApi(c) ELSE SendState(c, "request", TRUE)
  /\ UNCHANGED <<activeEndpoint, endpoint, clientResolved>>
  /\ UNCHANGED notClient

\* resolveEndpoint() is called by the user of the client.
CallResolveEndpoint(c) ==
  /\ IsNext(c)
  /\ SendState(c, "resolveEndpoint", FALSE)
  /\ UNCHANGED <<activeEndpoint, endpoint, clientResolved>>
  /\ UNCHANGED notClient

\* A state fetch whose failure is swallowed by request(): the call goes on
\* as if the endpoint had been resolved.
StateResponseSwallowed(c, r) ==
  /\ calls[c].pc = "resolving"
  /\ IF ~r.ok \/ r.endpoint = <<>>
     THEN /\ calls' = [calls EXCEPT ![c].pc =
                         IF calls[c].op = "request" THEN "resumed"
                         ELSE "failed"]
          /\ UNCHANGED <<activeEndpoint, endpoint, fetches>>
     ELSE LET value == StripSlash(r.endpoint)
          IN  /\ activeEndpoint' = value
              /\ endpoint' = value
              /\ fetches' = Append(fetches,
                   Event("resolved", c, calls[c].op = "request",
                         StripSlash(SsoEndpoint), r.endpoint, value))
              /\ calls' = [calls EXCEPT ![c].pc =
                             IF calls[c].op = "request" THEN "resumed"
                             ELSE "done",
                           ![c].ret = value]
  /\ UNCHANGED clientResolved
  /\ UNCHANGED notClient

\* The state fetch of call c answers: resolveEndpoint() throws, or stores the
\* endpoint in the config and in the client and returns it.
StateResponse(c, r) ==
  /\ calls[c].pc = "resolving"
  /\ IF ~r.ok \/ r.endpoint = <<>>
     THEN /\ calls' = [calls EXCEPT ![c].pc = "failed"]
          /\ UNCHANGED <<activeEndpoint, endpoint, fetches>>
     ELSE LET value == StripSlash(r.endpoint)
          IN  /\ activeEndpoint' = value
              /\ endpoint' = value
              /\ fetches' = Append(fetches,
                   Event("resolved", c, calls[c].op = "request",
                         StripSlash(SsoEndpoint), r.endpoint, value))
              /\ calls' = [calls EXCEPT ![c].pc =
                             IF calls[c].op = "request" THEN "resumed"
                             ELSE "done",
                           ![c].ret = value]
  /\ UNCHANGED clientResolved
  /\ UNCHANGED notClient

\* request() goes on after its await of resolveEndpoint().
Continue(c) ==
  /\ calls[c].pc = "resumed"
  /\ clientResolved' = TRUE
  /\ SendApi(c)
  /\ UNCHANGED <<activeEndpoint, endpoint>>
  /\ UNCHANGED notClient

\* The API request of call c answers, ok or not.
ApiResponse(c, ok) ==
  /\ calls[c].pc = "sent"
  /\ calls' = [calls EXCEPT ![c].pc = IF ok THEN "done" ELSE "failed"]
  /\ UNCHANGED <<activeEndpoint, endpoint, clientResolved, fetches>>
  /\ UNCHANGED notClient

ClientNext ==
  \/ \E c \in Calls : CallRequest(c)
  \/ \E c \in Calls : CallResolveEndpoint(c)
  \/ \E c \in Calls : \E r \in StateResponses : StateResponse(c, r)
  \/ \E c \in Calls : Continue(c)
  \/ \E c \in Calls : \E ok \in BOOLEAN : ApiResponse(c, ok)

SpecClient == ClientInit /\ [][ClientNext]_vars

(***************************************************************************)
(* Properties of the client                                                *)
(***************************************************************************)
\* Before entry i the client had an active endpoint: from the config at
\* construction, or from a resolution that succeeded.
HadEndpointBefore(i) ==
  \/ fetches[1].value # <<>>
  \/ \E j \in 1..(i - 1) : fetches[j].kind = "resolved"

AutoResolutions ==
  {i \in 1..Len(fetches) : fetches[i].kind = "state" /\ fetches[i].auto}

\* C13: request() resolves the endpoint by itself only while the client has no
\* active endpoint yet, the resolution has completed when the API request is
\* sent, and at most one such resolution takes place on one client.
C13_ResolvesOnceWhenNeeded ==
  /\ \A i \in AutoResolutions : ~HadEndpointBefore(i)
  /\ \A i \in 1..Len(fetches) :
       fetches[i].kind = "api" => HadEndpointBefore(i)
  /\ Cardinality(AutoResolutions) <= 1

\* The resolutions that succeeded before entry i.
ResolvedBefore(i) == {j \in 1..(i - 1) : fetches[j].kind = "resolved"}

\* value is reported without one trailing slash.
OneSlashRemoved(reported, value) ==
  IF reported # <<>> /\ reported[Len(reported)] = "/"
  THEN reported = value \o <<"/">>
  ELSE reported = value

\* What resolveEndpoint() returned and stored, for each resolution that
\* succeeded: the reported endpoint without one trailing slash; the stored
\* activeEndpoint is the value of the last of them.
ResolutionStored ==
  /\ \A j \in 1..Len(fetches) :
       fetches[j].kind = "resolved" =>
         /\ OneSlashRemoved(fetches[j].reported, fetches[j].value)
         /\ calls[fetches[j].call].ret = fetches[j].value
  /\ ResolvedBefore(Len(fetches) + 1) # {} =>
       \E j \in ResolvedBefore(Len(fetches) + 1) :
         /\ \A k \in ResolvedBefore(Len(fetches) + 1) : k <= j
         /\ activeEndpoint = fetches[j].value

\* C14 as stated: after a resolveEndpoint() that succeeded, the value is the
\* reported endpoint without one trailing slash, it is stored as
\* activeEndpoint, and every later request of the client goes to it.
C14_EveryLaterRequest ==
  /\ ResolutionStored
  /\ \A i \in 1..Len(fetches) :
       fetches[i].kind = "api" =>
         \A j \in ResolvedBefore(i) : fetches[i].base = fetches[j].value

\* C14: after a resolveEndpoint() that succeeded, the value is the reported
\* endpoint without one trailing slash, it is stored as activeEndpoint, and
\* every later request of the client goes to the value of the resolution that
\* succeeded last before the request was sent.
C14_LaterRequestsUseLastResolution ==
  /\ ResolutionStored
  /\ \A i \in 1..Len(fetches) :
       fetches[i].kind = "api" =>
         \A j \in ResolvedBefore(i) :
           (\A k \in ResolvedBefore(i) : k <= j) =>
             fetches[i].base = fetches[j].value

C14_Witness ==
  /\ Len(fetches) = 4
  /\ fetches[2].kind = "state"
  /\ fetches[3].kind = "resolved"
  /\ fetches[3].reported = <<"e2", "/", "/">>
  /\ fetches[3].value = <<"e2", "/">>
  /\ fetches[4].kind = "api"
  /\ fetches[4].base = <<"e2", "/">>
  /\ activeEndpoint = <<"e2", "/">>


\* ---------------------------------------------------------------------
\* The stored config (lib/config.ts): five string keys and the alias map,
\* kept by the conf store under the schema of config.ts 17-43.
\* ---------------------------------------------------------------------

\* The most keys one setConfig call passes.
MaxKeys == 2

StringKeys == {"ssoEndpoint", "tokenv2", "rcntrl", "ccntrl", "activeEndpoint"}

Keys == StringKeys \cup {"aliases"}

\* The values the string keys take; <<>> is the empty string.
StringValues == {<<>>, <<"a">>, <<"b">>}

\* The values setConfig is given.
GivenValues == {<<>>, <<"b">>}

\* The names looked up in the alias map. "toString" and "__proto__" are
\* members of Object.prototype, which every object read from the store
\* inherits; "nobody" is never set.
AliasNames == {"dave", "toString", "__proto__", "nobody"}

AliasValues == {"x", "y"}

InheritedNames == {"toString", "__proto__"}

\* What aliases[name] evaluates to when the name is inherited, not own.
Inherited(name) == "Object.prototype." \o name

\* The alias object: its own properties.
NoAliases == [n \in AliasNames |-> [own |-> FALSE, val |-> ""]]

\* The schema defaults: every string empty, no alias.
Defaults ==
  [ssoEndpoint |-> <<>>, tokenv2 |-> <<>>, rcntrl |-> <<>>, ccntrl |-> <<>>,
   activeEndpoint |-> <<>>, aliases |-> NoAliases]

Undefined == [defined |-> FALSE, val |-> <<>>]

Defined(v) == [defined |-> TRUE, val |-> v]

\* The arguments of setConfig: a value or undefined for some of the keys.
SetConfigArgs ==
  UNION {[K -> {Undefined} \cup {Defined(v) : v \in GivenValues}] :
           K \in {K \in SUBSET StringKeys : Cardinality(K) <= MaxKeys}}

\* A setConfig that writes the whole object, resetting the keys not passed.
setConfigReplace(st, values) ==
  [k \in Keys |->
     IF k \in DOMAIN values /\ values[k].defined THEN values[k].val
     ELSE Defaults[k]]

\* setConfig: config.set(key, value) for every entry that is not undefined.
setConfig(st, values) ==
  [k \in Keys |->
     IF k \in DOMAIN values /\ values[k].defined THEN values[k].val
     ELSE st[k]]

\* A clear that forgets the credentials only.
clearCredentials(st) ==
  [st EXCEPT !.ssoEndpoint = <<>>, !.tokenv2 = <<>>, !.rcntrl = <<>>,
             !.ccntrl = <<>>]

\* clearConfig: config.clear() puts every key back to its schema default.
clearConfig(st) == Defaults

\* An isConfigured that is content with either credential.
isConfiguredEither(st) == st.ssoEndpoint # <<>> \/ st.tokenv2 # <<>>

\* isConfigured: Boolean(c.ssoEndpoint && c.tokenv2).
isConfigured(st) == st.ssoEndpoint # <<>> /\ st.tokenv2 # <<>>

\* getAliases: the alias object as stored.
getAliases(st) == st.aliases

\* aliases[name] = value. Assigning a string to __proto__ runs the
\* inherited setter, which ignores it: no own property is made.
AssignAlias(aliases, name, value) ==
  IF name = "__proto__" THEN aliases
  ELSE [aliases EXCEPT ![name] = [own |-> TRUE, val |-> value]]

setAlias(st, name, value) ==
  [st EXCEPT !.aliases = AssignAlias(@, name, value)]

\* name in aliases: own properties and inherited ones alike.
HasProperty(aliases, name) == aliases[name].own \/ name \in InheritedNames

\* removeAlias: what it returns, and the store it leaves.
removeAliasReturns(st, name) == HasProperty(st.aliases, name)

removeAlias(st, name) ==
  IF ~HasProperty(st.aliases, name) THEN st
  ELSE [st EXCEPT !.aliases[name] = [own |-> FALSE, val |-> ""]]

\* resolveAlias: aliases[nameOrValue] ?? nameOrValue.
resolveAlias(st, nameOrValue) ==
  IF nameOrValue \in DOMAIN st.aliases /\ st.aliases[nameOrValue].own
  THEN st.aliases[nameOrValue].val
  ELSE IF nameOrValue \in InheritedNames THEN Inherited(nameOrValue)
  ELSE nameOrValue

Op(name, values, arg, val, retBool, retStr) ==
  [name |-> name, values |-> values, arg |-> arg, val |-> val,
   retBool |-> retBool, retStr |-> retStr]

ConfigInit ==
  /\ store = Defaults
  /\ lastOp = Op("new Conf", <<>>, "", "", FALSE, "")
  /\ shown = <<>>
  /\ cachedFor = <<>>
  /\ client = <<>>
  /\ CommandOff
  /\ PipelineOff
  /\ HtmlOff
  /\ DurationOff
  /\ ClientOff

SetConfig(values) ==
  /\ store' = setConfig(store, values)
  /\ lastOp' = Op("setConfig", values, "", "", FALSE, "")
  /\ UNCHANGED <<shown, rvars, notStore>>

\* resolveEndpoint stores the endpoint it resolved (client.ts 62).
StoreResolution(e) ==
  /\ store' = setConfig(store, [k \in {"activeEndpoint"} |-> Defined(e)])
  /\ lastOp' = Op("resolveEndpoint", <<>>, "", "", FALSE, "")
  /\ UNCHANGED <<shown, rvars, notStore>>

ClearConfig ==
  /\ store' = clearConfig(store)
  /\ lastOp' = Op("clearConfig", <<>>, "", "", FALSE, "")
  /\ UNCHANGED <<shown, rvars, notStore>>

IsConfigured ==
  /\ lastOp' = Op("isConfigured", <<>>, "", "", isConfigured(store), "")
  /\ UNCHANGED <<store, shown, rvars, notStore>>

SetAlias(name, value) ==
  /\ store' = setAlias(store, name, value)
  /\ lastOp' = Op("setAlias", <<>>, name, value, FALSE, "")
  /\ UNCHANGED <<shown, rvars, notStore>>

RemoveAlias(name) ==
  /\ store' = removeAlias(store, name)
  /\ lastOp' = Op("removeAlias", <<>>, name, "", removeAliasReturns(store, name), "")
  /\ UNCHANGED <<shown, rvars, notStore>>

ResolveAlias(nameOrValue) ==
  /\ lastOp' = Op("resolveAlias", <<>>, nameOrValue, "", FALSE,
                  resolveAlias(store, nameOrValue))
  /\ UNCHANGED <<store, shown, rvars, notStore>>

ConfigNext ==
  \/ \E values \in SetConfigArgs : SetConfig(values)
  \/ StoreResolution(<<"a">>)
  \/ ClearConfig
  \/ IsConfigured
  \/ \E n \in AliasNames \ {"nobody"}, v \in AliasValues : SetAlias(n, v)
  \/ \E n \in AliasNames : RemoveAlias(n)
  \/ \E x \in AliasNames : ResolveAlias(x)

SpecConfig == ConfigInit /\ [][ConfigNext]_vars

\* C15: a setConfig step changes exactly the keys it was given a value for
\* (a value that is not undefined), to that value, and leaves every other
\* key, the cached active endpoint and the aliases included, as it was.
C15_PartialUpdate ==
  [][lastOp'.name = "setConfig" =>
       \A k \in Keys :
         store'[k] = IF k \in DOMAIN lastOp'.values /\ lastOp'.values[k].defined
                     THEN lastOp'.values[k].val
                     ELSE store[k]]_vars

\* A setConfig with a new token and an undefined rcntrl has been made on a
\* store that keeps its rcntrl, its active endpoint and its alias.
C15_Witness ==
  /\ lastOp.name = "setConfig"
  /\ DOMAIN lastOp.values = {"tokenv2", "rcntrl"}
  /\ lastOp.values["tokenv2"] = Defined(<<"b">>)
  /\ lastOp.values["rcntrl"] = Undefined
  /\ store.tokenv2 = <<"b">>
  /\ store.rcntrl = <<"b">>
  /\ store.activeEndpoint = <<"a">>
  /\ store.aliases["dave"].own

\* C16: whenever isConfigured() has just been called, it returned true
\* exactly when the stored ssoEndpoint and tokenv2 are both non-empty.
C16_ConfiguredIffBothSet ==
  lastOp.name = "isConfigured" =>
    (lastOp.retBool <=> (store.ssoEndpoint # <<>> /\ store.tokenv2 # <<>>))

\* isConfigured() has returned true on a store that also holds an alias and
\* a resolved endpoint.
C16_Witness ==
  /\ lastOp.name = "isConfigured"
  /\ lastOp.retBool
  /\ store.activeEndpoint # <<>>
  /\ store.aliases["dave"].own

\* C17: after clearConfig() every key has its default: the four credentials
\* and the active endpoint are empty strings, the alias map is empty, and
\* isConfigured() is false.
C17_ClearResetsAll ==
  lastOp.name = "clearConfig" =>
    /\ \A k \in StringKeys : store[k] = <<>>
    /\ \A n \in AliasNames : ~getAliases(store)[n].own
    /\ ~isConfigured(store)

\* clearConfig() has just been called, and the store holds the defaults.
C17_Witness ==
  /\ lastOp.name = "clearConfig"
  /\ store = Defaults


\* C18: the alias store is a finite map. A setAlias step maps the name to
\* the value and a removeAlias step unmaps it, no other name changing;
\* removeAlias(n) returns true exactly when n was an alias, and leaves the
\* map unchanged otherwise; resolveAlias(x) returns the mapped value when x
\* is an alias and x itself for every other x.
C18_AliasesAreFiniteMap ==
  [][/\ lastOp'.name = "setAlias" =>
          getAliases(store') =
            [getAliases(store) EXCEPT
               ![lastOp'.arg] = [own |-> TRUE, val |-> lastOp'.val]]
     /\ lastOp'.name = "removeAlias" =>
          /\ lastOp'.retBool <=> getAliases(store)[lastOp'.arg].own
          /\ getAliases(store') =
               [getAliases(store) EXCEPT
                  ![lastOp'.arg] = [own |-> FALSE, val |-> ""]]
     /\ lastOp'.name = "resolveAlias" =>
          lastOp'.retStr =
            IF getAliases(store)[lastOp'.arg].own
            THEN getAliases(store)[lastOp'.arg].val
            ELSE lastOp'.arg]_vars


\* ---------------------------------------------------------------------
\* `config show` (commands/config.ts 36-53): the stored values as printed.
\* ---------------------------------------------------------------------

\* The stored tokens: none, and tokens of 3, 8, 9 and 16 characters.
TokenValues ==
  { <<>>,
    <<"9", "f", "3">>,
    <<"9", "f", "3", "a", "7", "c", "2", "1">>,
    <<"9", "f", "3", "a", "7", "c", "2", "1", "b">>,
    <<"9", "f", "3", "a", "7", "c", "2", "1", "b", "4", "d", "8", "e", "0",
      "6", "f">> }

TokenKeys == {"tokenv2", "rcntrl", "ccntrl"}

NotSet ==
  <<"(", "n", "o", "t", " ", "s", "e", "t", ")">>

NotResolved ==
  <<"(", "n", "o", "t", " ", "r", "e", "s", "o", "l", "v", "e", "d", ")">>

Ellipsis == <<".", ".", ".">>

\* What each console.log writes before the value.
Label ==
  [ sso |->
      <<"S", "S", "O", " ", "E", "n", "d", "p", "o", "i", "n", "t", ":", " ",
       " ", " ", " ">>,
    active |->
      <<"A", "c", "t", "i", "v", "e", " ", "E", "n", "d", "p", "o", "i", "n",
       "t", ":", " ">>,
    tokenv2 |->
      <<"t", "o", "k", "e", "n", "v", "2", ":", " ", " ", " ", " ", " ", " ",
       " ", " ", " ">>,
    rcntrl |->
      <<"r", "c", "n", "t", "r", "l", ":", " ", " ", " ", " ", " ", " ", " ",
       " ", " ", " ">>,
    ccntrl |->
      <<"c", "c", "n", "t", "r", "l", ":", " ", " ", " ", " ", " ", " ", " ",
       " ", " ", " ">>,
    path |->
      <<"\n", "C", "o", "n", "f", "i", "g", " ", "f", "i", "l", "e", ":", " ">> ]

\* getConfigPath(): where the conf store keeps its file.
ConfigPath ==
  <<"/", "c", "f", "g", "/", "c", "o", "n", "f", "i", "g", ".", "j", "s",
    "o", "n">>

\* val.slice(0, n): the first n characters, or all of a shorter string.
SliceFirst(val, n) == SubSeq(val, 1, IF Len(val) < n THEN Len(val) ELSE n)

\* val.slice(-n): the last n characters, or all of a shorter string.
SliceLast(val, n) ==
  SubSeq(val, IF Len(val) < n THEN 1 ELSE Len(val) - n + 1, Len(val))

\* value || fallback.
OrElse(val, fallback) == IF val = <<>> THEN fallback ELSE val

\* mask: the value itself with --reveal or when empty, else its first eight
\* characters, three dots and its last four.
mask(val, reveal) ==
  IF reveal \/ val = <<>> THEN OrElse(val, NotSet)
  ELSE SliceFirst(val, 8) \o Ellipsis \o SliceLast(val, 4)

\* The six console.log calls.
ShowLines(c, reveal) ==
  << Label.sso \o OrElse(c.ssoEndpoint, NotSet),
     Label.active \o OrElse(c.activeEndpoint, NotResolved),
     Label.tokenv2 \o mask(c.tokenv2, reveal),
     Label.rcntrl \o mask(c.rcntrl, reveal),
     Label.ccntrl \o mask(c.ccntrl, reveal),
     Label.path \o ConfigPath >>

\* What the terminal holds: every line followed by a newline.
RECURSIVE Printed(_)
Printed(lines) ==
  IF lines = <<>> THEN <<>>
  ELSE Head(lines) \o <<"\n">> \o Printed(Tail(lines))

\* s holds sub as a run of consecutive characters.
Contains(s, sub) ==
  \E i \in 1..(Len(s) - Len(sub) + 1) : SubSeq(s, i, i + Len(sub) - 1) = sub

ShowInit ==
  /\ store \in [ssoEndpoint : {<<>>, <<"a">>}, tokenv2 : TokenValues,
                rcntrl : TokenValues, ccntrl : TokenValues,
                activeEndpoint : {<<>>, <<"b">>}, aliases : {NoAliases}]
  /\ lastOp = Op("new Conf", <<>>, "", "", FALSE, "")
  /\ shown = <<>>
  /\ cachedFor = <<>>
  /\ client = <<>>
  /\ CommandOff
  /\ PipelineOff
  /\ HtmlOff
  /\ DurationOff
  /\ ClientOff

ConfigShow(reveal) ==
  /\ shown' = shown \o ShowLines(store, reveal)
  /\ lastOp' = Op("config show", <<>>, "", "", reveal, "")
  /\ UNCHANGED <<store, rvars, notStore>>

ShowNext == \E reveal \in BOOLEAN : shown = <<>> /\ ConfigShow(reveal)

SpecShow == ShowInit /\ [][ShowNext]_vars

\* C19: `config show` without --reveal prints no stored non-empty token
\* (tokenv2, rcntrl, ccntrl) in full, whatever its length; with --reveal it
\* prints each of them in full.
C19_TokensMasked ==
  lastOp.name = "config show" =>
    \A k \in TokenKeys :
      store[k] # <<>> =>
        (Contains(Printed(shown), store[k]) <=> lastOp.retBool)


\* ---------------------------------------------------------------------
\* The order of the requests of one `ticket activities` run.
\* ---------------------------------------------------------------------

\* The place of each endpoint in the chain of the handler.
Rank(ep) ==
  CASE ep = "state" -> 0
    [] ep = "cases" -> 1
    [] ep = "cases/search" -> 2
    [] ep = "activities/search" -> 3
    [] ep = "conversation" -> 4
    [] ep = "emailcontent" -> 5

Issued(ep) == SelectSeq(requests, LAMBDA r : r.ep = ep)

\* The conversations whose expansion has been requested, in request order.
Expansions ==
  [i \in 1..Len(Issued("conversation")) |-> Issued("conversation")[i].ids[1]]

\* The handler is suspended at the await of its last request.
Awaiting == pc \in {"resolving", "case", "fullcase", "acts", "conv"}

\* The requests in the order of the chain; each step before the expansions
\* is requested once.
InChainOrder ==
  \A i, j \in DOMAIN requests :
    i < j => /\ Rank(requests[i].ep) <= Rank(requests[j].ep)
             /\ Rank(requests[i].ep) = Rank(requests[j].ep)
                  => Rank(requests[i].ep) >= 4

\* The expansions follow the conversations of the fetched batch, in order.
ExpansionsInBatchOrder ==
  /\ Len(Expansions) <= Len(convs)
  /\ Expansions = SubSeq(convs, 1, Len(Expansions))
  /\ pc = "conv" => Len(Expansions) = convIdx

\* Body requests exist only once every expansion has been requested and
\* answered.
BodiesAfterExpansions ==
  Issued("emailcontent") # <<>> =>
    /\ pc \in {"bodies", "exited"}
    /\ Len(Expansions) = Len(convs)
    /\ failed = 0

\* C20: the requests of one run are issued in the order ticket fetch,
\* cases/search, activities/search, conversation expansions (one at a time,
\* in the order of the fetched batch), email-body fetches; a request of the
\* mandatory chain is issued only by the step that receives the response of
\* the previous one, and no email-body request is issued before every
\* expansion has completed.
C20_RequestsInChainOrder ==
  [][/\ InChainOrder'
     /\ ExpansionsInBatchOrder'
     /\ BodiesAfterExpansions'
     /\ (pc = "acts" /\ pc' = "conv") =>
          convs' = SelectSeq(activities', IsConversation)
     /\ requests' # requests =>
          /\ Len(requests') > Len(requests)
          /\ SubSeq(requests', 1, Len(requests)) = requests
          /\ (pc = "idle" /\ requests = <<>>) \/ Awaiting
          /\ Awaiting' => Len(requests') = Len(requests) + 1
     /\ (Awaiting /\ requests' = requests) => ~Awaiting']_vars

\* A run has ended well after the endpoint resolution, the ticket fetch, the
\* two searches, the expansion of a conversation and the body fetches of the
\* email of the batch and of the email the expansion returned.
C20_Witness ==
  /\ pc = "exited"
  /\ exitCode = 0
  /\ Len(Issued("state")) = 1
  /\ Len(Issued("cases")) = 1
  /\ Len(Issued("cases/search")) = 1
  /\ Len(Issued("activities/search")) = 1
  /\ Len(Expansions) = 1
  /\ Len(Issued("emailcontent")) = 2


\* ---------------------------------------------------------------------
\* The body fetches of one run (ticket.ts 453-475).
\* ---------------------------------------------------------------------

Pending == {i \in DOMAIN fetch : fetch[i] = "pending"}

\* C21: the body fetches are all issued before any of them is awaited, one
\* request for each email, and while one of them is pending no step writes
\* output, returns or exits, whatever the others did: a run that has ended
\* has no pending body fetch.
C21_WaitsForAllBodies ==
  [][/\ pc' = "bodies" =>
          /\ Len(fetch') = Len(emailActs')
          /\ Len(Issued("emailcontent")') = Len(emailActs')
     /\ (pc = "bodies" /\ Pending # {}) =>
          /\ pc' = "bodies"
          /\ stdout' = stdout
          /\ stderr' = stderr
          /\ exitCode' = exitCode
     /\ pc' = "exited" => Pending' = {}]_vars

\* A run has ended well with two body fetches of which the first failed and
\* the second arrived.
C21_Witness ==
  /\ pc = "exited"
  /\ exitCode = 0
  /\ stdout # <<>>
  /\ fetch = <<"rejected", "fulfilled">>


\* What the body map holds once the fetches in `done` have arrived, in any
\* order: the stored body of every email one of them fetched.
BodiesOf(done) ==
  [a \in ActIds |->
     IF \E i \in done : emailActs[i] = a THEN ArrivedBody[a] ELSE NoBody]

\* C22: the body fetches of one run write distinct keys of the body map, one
\* for each fetch, so the map is a function of which fetches arrived and
\* not of the order in which they did.
C22_DistinctSlots ==
  pc \in {"bodies", "exited"} =>
    /\ \A i, j \in DOMAIN fetch : emailActs[i] = emailActs[j] => i = j
    /\ emailBodies = BodiesOf({i \in DOMAIN fetch : fetch[i] = "fulfilled"})


\* The sources of the links of the full ticket record that have type Case
\* and point at the ticket.
AttachedIds ==
  {fullCase.links[i].from :
     i \in {k \in DOMAIN fullCase.links :
              /\ fullCase.links[k].type = LINK_CASE
              /\ fullCase.links[k].to = TicketEact}}

\* What a run without activities writes: the comments alone.
CommentsOnly ==
  IF json
  THEN << [kind |-> "json", acts |-> <<>>,
           comments |-> CommentsOut(caseData.texts)] >>
  ELSE IF CommentsOut(caseData.texts) = <<>>
  THEN << [kind |-> "none", acts |-> <<>>, comments |-> <<>>] >>
  ELSE << [kind |-> "comments", acts |-> <<>>,
           comments |-> CommentsRendered(caseData.texts)] >>

\* C23: once step 2 has answered, the identifiers of the batch lookup are
\* exactly the sources of the Case links that point at the ticket; when
\* there is none (or no ticket record came back) neither activities/search
\* nor emailcontent is ever requested and the run ends well with an empty
\* activity list and the comments.
C23_BatchIdsAreCaseLinks ==
  pc \in {"acts", "conv", "bodies", "exited"} /\ Len(Issued("cases/search")) = 1
  /\ failed # Len(Issued("state")) + 2
  =>
    IF AttachedIds # {}
    THEN /\ Len(Issued("activities/search")) = 1
         /\ Range(Issued("activities/search")[1].ids) = AttachedIds
    ELSE /\ Issued("activities/search") = <<>>
         /\ Issued("conversation") = <<>>
         /\ Issued("emailcontent") = <<>>
         /\ activities = <<>>
         /\ pc = "exited" => exitCode = 0 /\ stderr = <<>> /\ stdout = CommentsOnly

\* The batch lookup was sent for the one link of two that is a Case link to
\* this ticket, the other being a Case link to another ticket.
C23_Witness ==
  /\ pc = "acts"
  /\ Len(fullCase.links) = 2
  /\ fullCase.links[1].type = LINK_CASE
  /\ fullCase.links[1].to = OtherEact
  /\ fullCase.links[2].type = LINK_CASE
  /\ fullCase.links[2].to = TicketEact
  /\ fullCase.links[1].from # fullCase.links[2].from
  /\ Issued("activities/search")[1].ids = <<fullCase.links[2].from>>


\* The conversation searches that have answered, one after the other.
RECURSIVE Flatten(_)
Flatten(lists) ==
  IF lists = <<>> THEN <<>> ELSE Head(lists) \o Flatten(Tail(lists))

\* The working list after the first k conversations of the batch have been
\* expanded: for each, every entry with its eactId is removed and what its
\* search answered is appended.
RECURSIVE WorkingList(_)
WorkingList(k) ==
  IF k = 0 THEN actResult
  ELSE SelectSeq(WorkingList(k - 1), LAMBDA a : a # convs[k]) \o expanded[k]

\* The working list as the non-container activities of the batch followed
\* by what the expansions answered.
BatchThenExpansions ==
  SelectSeq(actResult, LAMBDA a : ~IsConversation(a)) \o Flatten(expanded)

\* One search for each conversation of the batch, none for what an
\* expansion answered.
OneLevelDeep ==
  /\ convs = SelectSeq(actResult, IsConversation)
  /\ pc \in {"bodies", "exited"} /\ failed = 0 => Expansions = convs
  /\ Len(expanded) <= Len(Expansions)

\* C24 as stated: expansion is one level deep, and once every expansion has
\* answered the working list that is sorted is the non-container activities
\* of the batch followed by what the expansions answered.
C24_BatchThenExpansions ==
  Issued("activities/search") # <<>> /\ pc \in {"conv", "bodies", "exited"} =>
    /\ OneLevelDeep
    /\ Len(expanded) = Len(convs) =>
         activities = SortActivities(BatchThenExpansions)

\* C24 amended: expansion is one level deep, and the working list is the
\* batch from which, conversation by conversation in batch order, every
\* entry with the eactId of the conversation is removed and to which what
\* its search answered is appended; it is sorted once the last has answered.
C24_RemoveThenAppend ==
  Issued("activities/search") # <<>> /\ pc \in {"conv", "bodies", "exited"} =>
    /\ OneLevelDeep
    /\ activities = IF Len(expanded) = Len(convs)
                    THEN SortActivities(WorkingList(Len(expanded)))
                    ELSE WorkingList(Len(expanded))

\* A run has ended well after two expansions, the first of which answered
\* the second conversation of the batch.
C24_Witness ==
  /\ pc = "exited"
  /\ exitCode = 0
  /\ Len(convs) = 2
  /\ Len(expanded) = 2
  /\ expanded[1] = <<convs[2]>>
  /\ expanded[2] # <<>>


\* The API requests call c has sent.
ApiFetches(c) ==
  {i \in 1..Len(fetches) : fetches[i].kind = "api" /\ fetches[i].call = c}

\* C29: when the state call of a resolution answers not ok or without an
\* endpoint, the call (resolveEndpoint() or the request() that started it)
\* rejects, the stored activeEndpoint, the endpoint of the client and its
\* resolved flag stay as they were, the call has sent and sends no API
\* request, and a request() made while the client is unresolved starts with
\* the state call again.
C29_FailedResolutionChangesNothing ==
  [][\A c \in Calls :
       /\ calls[c].pc = "resolving" =>
            /\ ApiFetches(c) = {}
            /\ calls'[c].pc \in {"resolving", "failed", "resumed", "done"}
            /\ calls'[c].pc \in {"resumed", "done"} =>
                 fetches'[Len(fetches')].kind = "resolved"
            /\ calls'[c].pc = "failed" =>
                 /\ activeEndpoint' = activeEndpoint
                 /\ endpoint' = endpoint
                 /\ clientResolved' = clientResolved
                 /\ fetches' = fetches
       /\ calls[c].pc = "failed" => calls'[c] = calls[c]
       /\ (calls[c].pc = "new" /\ calls'[c].op = "request" /\ ~clientResolved) =>
            /\ calls'[c].pc = "resolving"
            /\ fetches'[Len(fetches')].kind = "state"
            /\ fetches'[Len(fetches')].call = c]_vars

\* The first request() failed at its resolution and sent no API request; the
\* client is unresolved, and the second request() has sent the state call
\* again.
C29_Witness ==
  /\ calls[1].op = "request"
  /\ calls[1].pc = "failed"
  /\ ApiFetches(1) = {}
  /\ ~clientResolved
  /\ activeEndpoint = <<>>
  /\ endpoint = SsoEndpoint
  /\ calls[2].op = "request"
  /\ calls[2].pc = "resolving"
  /\ Len(fetches) = 3
  /\ fetches[3].kind = "state"
  /\ fetches[3].call = 2


\* ---------------------------------------------------------------------
\* The cached activeEndpoint under `config set`, `login`, `config clear` and
\* endpoint resolution (commands/config.ts, lib/client.ts 22-68).
\* ---------------------------------------------------------------------

\* DEFAULT_SSO_ENDPOINT
DefaultSso == <<"a">>

\* The SSO endpoint and the credentials a client is built from.
Settings(st) ==
  [ssoEndpoint |-> st.ssoEndpoint, tokenv2 |-> st.tokenv2,
   rcntrl |-> st.rcntrl, ccntrl |-> st.ccntrl]

SettingsInit ==
  /\ store = Defaults
  /\ lastOp = Op("new Conf", <<>>, "", "", FALSE, "")
  /\ shown = <<>>
  /\ cachedFor = Settings(Defaults)
  /\ client = <<>>
  /\ CommandOff
  /\ PipelineOff
  /\ HtmlOff
  /\ DurationOff
  /\ ClientOff

\* `config set`: the four options are stored, nothing else.
ConfigSetCommand(sso, token, rc, cc) ==
  /\ store' = setConfig(store,
       [k \in {"ssoEndpoint", "tokenv2", "rcntrl", "ccntrl"} |->
          Defined(CASE k = "ssoEndpoint" -> sso [] k = "tokenv2" -> token
                    [] k = "rcntrl" -> rc [] k = "ccntrl" -> cc)])
  /\ lastOp' = Op("config set", <<>>, "", "", FALSE, "")
  /\ UNCHANGED <<shown, rvars, notStore>>

\* `login` with an API key that parses: the default SSO endpoint and the
\* three values of the key are stored.
LoginCommand(token, rc, cc) ==
  /\ token # <<>>
  /\ store' = setConfig(store,
       [k \in {"ssoEndpoint", "tokenv2", "rcntrl", "ccntrl"} |->
          Defined(CASE k = "ssoEndpoint" -> DefaultSso [] k = "tokenv2" -> token
                    [] k = "rcntrl" -> rc [] k = "ccntrl" -> cc)])
  /\ lastOp' = Op("login", <<>>, "", "", FALSE, "")
  /\ UNCHANGED <<shown, rvars, notStore>>

\* `config clear`.
ClearCommand ==
  /\ store' = clearConfig(store)
  /\ lastOp' = Op("config clear", <<>>, "", "", FALSE, "")
  /\ UNCHANGED <<shown, rvars, notStore>>

\* new ItxClient(): the constructor throws without tokenv2; it keeps the
\* credentials it read as authParams, the stored activeEndpoint or else the
\* SSO endpoint as this.endpoint, and this.resolved. `asked` holds the
\* settings of the state request the client waits for.
NewClient ==
  /\ store.tokenv2 # <<>>
  /\ client' = << [tokenv2 |-> store.tokenv2, rcntrl |-> store.rcntrl,
                   ccntrl |-> store.ccntrl,
                   endpoint |-> IF store.activeEndpoint # <<>>
                                THEN store.activeEndpoint
                                ELSE store.ssoEndpoint,
                   resolved |-> store.activeEndpoint # <<>>,
                   asked |-> <<>>] >>
  /\ lastOp' = Op("new ItxClient", <<>>, "", "", FALSE, "")
  /\ UNCHANGED <<store, shown, cachedFor, notStore>>

\* resolveEndpoint() up to its await: the state request goes to the SSO
\* endpoint stored now, with the credentials the constructor read.
ResolveAsks ==
  /\ client # <<>>
  /\ client[1].asked = <<>>
  /\ store.ssoEndpoint # <<>>
  /\ client' = << [client[1] EXCEPT !.asked =
                     << [ssoEndpoint |-> store.ssoEndpoint,
                         tokenv2 |-> client[1].tokenv2,
                         rcntrl |-> client[1].rcntrl,
                         ccntrl |-> client[1].ccntrl] >>] >>
  /\ lastOp' = Op("resolveEndpoint", <<>>, "", "", FALSE, "")
  /\ UNCHANGED <<store, shown, cachedFor, notStore>>

\* The SSO answers the state request with endpoint e: it is written onto
\* the store as it is now and becomes this.endpoint.
ResolveUnderSettings(e) ==
  /\ client # <<>>
  /\ client[1].asked # <<>>
  /\ store' = setConfig(store, [k \in {"activeEndpoint"} |-> Defined(e)])
  /\ cachedFor' = client[1].asked[1]
  /\ client' = << [client[1] EXCEPT !.asked = <<>>, !.endpoint = e] >>
  /\ lastOp' = Op("state answered", <<>>, "", "", FALSE, "")
  /\ UNCHANGED <<shown, notStore>>

\* The state request fails, or its answer names no endpoint:
\* resolveEndpoint() throws and nothing is written.
ResolveFails ==
  /\ client # <<>>
  /\ client[1].asked # <<>>
  /\ client' = << [client[1] EXCEPT !.asked = <<>>] >>
  /\ lastOp' = Op("state failed", <<>>, "", "", FALSE, "")
  /\ UNCHANGED <<store, shown, cachedFor, notStore>>

SettingsNext ==
  \/ \E sso, token \in StringValues, rc \in GivenValues :
       ConfigSetCommand(sso, token, rc, <<>>)
  \/ \E token \in StringValues, rc \in GivenValues :
       LoginCommand(token, rc, <<>>)
  \/ ClearCommand
  \/ NewClient
  \/ ResolveAsks
  \/ \E e \in StringValues \ {<<>>} : ResolveUnderSettings(e)
  \/ ResolveFails

SpecSettings == SettingsInit /\ [][SettingsNext]_vars

\* C28: a stored activeEndpoint that is not empty was resolved under the SSO
\* endpoint and the credentials stored now, and a client that is built
\* resolved (one that sends its API requests to the stored activeEndpoint
\* without resolving) is built from such a one.
C28_CacheBelongsToSettings ==
  /\ store.activeEndpoint # <<>> => cachedFor = Settings(store)
  /\ (lastOp.name = "new ItxClient" /\ client[1].resolved) =>
       /\ client[1].endpoint = store.activeEndpoint
       /\ cachedFor = Settings(store)


\* ---------------------------------------------------------------------
\* The ticket and user commands (commands/ticket.ts, commands/user.ts): one
\* command runs on a stored config, one step for each await.
\* ---------------------------------------------------------------------

\* The most --mention options of one `ticket comment`.
MaxMentions == 2

\* ROLES.ASSIGNED_USER
ASSIGNED_USER == 1

\* The characters of the strings the commands handle.
Chars(str) ==
  CASE str = "dave" -> <<"d", "a", "v", "e">>
    [] str = "BO" -> <<"B", "O">>
    [] str = "bo ek" -> <<"b", "o", " ", "e", "k">>
    [] str = "nobody" -> <<"n", "o", "b", "o", "d", "y">>
    [] str = "di@itx.no" -> <<"d", "i", "@", "i", "t", "x", ".", "n", "o">>
    [] str = "Di" -> <<"D", "i">>
    [] str = "Lee" -> <<"L", "e", "e">>
    [] str = "Di@itx.no" -> <<"D", "i", "@", "i", "t", "x", ".", "n", "o">>
    [] str = "Bo" -> <<"B", "o">>
    [] str = "Ek" -> <<"E", "k">>
    [] str = "bo@itx.no" -> <<"b", "o", "@", "i", "t", "x", ".", "n", "o">>

\* String.prototype.toLowerCase
ToLowerCase(cs) == [i \in 1..Len(cs) |-> Lower(cs[i])]

\* What POST /rest/core/users/search answers: the users of the server.
Users ==
  << [userId |-> 7, firstName |-> "Di", lastName |-> "Lee",
      email |-> "Di@itx.no"],
     [userId |-> 12, firstName |-> "Bo", lastName |-> "Ek",
      email |-> "bo@itx.no"] >>

UsersAnswers == {Users, <<Users[2]>>}

\* findUser returns undefined.
NoUser == [userId |-> 0, firstName |-> "", lastName |-> "", email |-> ""]

\* findUser throws: emailOrName.toLowerCase is not a function.
TypeError ==
  [userId |-> 0, firstName |-> "", lastName |-> "", email |-> "TypeError"]

\* What --mention and --assignee are given: an alias name, a first name in
\* capitals, a full name, a name of nobody, a member of Object.prototype.
MentionInputs == {"dave", "BO", "bo ek", "nobody", "toString"}

\* A value that is a string: not a member of Object.prototype.
IsString(v) == v \notin {Inherited(n) : n \in InheritedNames}

\* Array.prototype.find: the first user among those that pass the test.
FirstUser(users, hits) ==
  IF hits = {} THEN NoUser
  ELSE users[CHOOSE i \in hits : \A j \in hits : i <= j]

\* findUser: by email, then by full, first or last name, all in lower case.
findUser(users, emailOrName) ==
  LET lower == ToLowerCase(Chars(emailOrName))
      byEmail == FirstUser(users,
                   {i \in 1..Len(users) :
                      ToLowerCase(Chars(users[i].email)) = lower})
  IN  IF byEmail # NoUser THEN byEmail
      ELSE FirstUser(users,
             {i \in 1..Len(users) :
                \/ ToLowerCase(Chars(users[i].firstName) \o <<" ">>
                                 \o Chars(users[i].lastName)) = lower
                \/ ToLowerCase(Chars(users[i].firstName)) = lower
                \/ ToLowerCase(Chars(users[i].lastName)) = lower})

\* `@${user.firstName} ${user.lastName}`
DisplayName(user) ==
  <<"@">> \o Chars(user.firstName) \o <<" ">> \o Chars(user.lastName)

\* resolveAlias, then findUser, on one --mention. A resolved alias that is
\* no string makes findUser throw.
MentionedUser(st, users, mentionInput) ==
  LET resolvedInput == resolveAlias(st, mentionInput)
  IN  IF IsString(resolvedInput) THEN findUser(users, resolvedInput)
      ELSE TypeError

\* How the loop over opts.mention ends: with every mention tagged, at a
\* mention without user, or in the throw of findUser.
LoopEnd(how, mentionPrefix, tags) ==
  [ok |-> how = "done", thrown |-> how = "thrown",
   mentionPrefix |-> mentionPrefix, tags |-> tags]

\* mentionPrefix += `﻿${displayName}﻿ `
PrefixWith(mentionPrefix, user) ==
  mentionPrefix \o <<"BOM">> \o DisplayName(user) \o <<"BOM", " ">>

\* A loop that counts the start of the tag without the leading ﻿.
RECURSIVE MentionLoopOffByOne(_, _, _, _, _)
MentionLoopOffByOne(st, users, mentions, mentionPrefix, tags) ==
  IF mentions = <<>>
  THEN LoopEnd("done", mentionPrefix, tags)
  ELSE LET user == MentionedUser(st, users, Head(mentions))
       IN  IF user = TypeError
           THEN LoopEnd("thrown", mentionPrefix, tags)
           ELSE IF user = NoUser
           THEN LoopEnd("none", mentionPrefix, tags)
           ELSE MentionLoopOffByOne(st, users, Tail(mentions),
                  PrefixWith(mentionPrefix, user),
                  Append(tags,
                    [startIndex |-> 3 + Len(mentionPrefix),
                     length |-> Len(DisplayName(user)),
                     type |-> "user",
                     data |-> ToString(user.userId)]))

\* A loop that leaves out the mentions it finds no user for.
RECURSIVE MentionLoopSkips(_, _, _, _, _)
MentionLoopSkips(st, users, mentions, mentionPrefix, tags) ==
  IF mentions = <<>>
  THEN LoopEnd("done", mentionPrefix, tags)
  ELSE LET user == MentionedUser(st, users, Head(mentions))
       IN  IF user = TypeError
           THEN LoopEnd("thrown", mentionPrefix, tags)
           ELSE IF user = NoUser
           THEN MentionLoopSkips(st, users, Tail(mentions), mentionPrefix, tags)
           ELSE MentionLoopSkips(st, users, Tail(mentions),
                  PrefixWith(mentionPrefix, user),
                  Append(tags,
                    [startIndex |-> 3 + Len(mentionPrefix) + 1,
                     length |-> Len(DisplayName(user)),
                     type |-> "user",
                     data |-> ToString(user.userId)]))

\* The loop over opts.mention from the mention at hand on: the prefix and
\* the tags it leaves, and how it ended.
RECURSIVE MentionLoop(_, _, _, _, _)
MentionLoop(st, users, mentions, mentionPrefix, tags) ==
  IF mentions = <<>>
  THEN LoopEnd("done", mentionPrefix, tags)
  ELSE LET user == MentionedUser(st, users, Head(mentions))
       IN  IF user = TypeError
           THEN LoopEnd("thrown", mentionPrefix, tags)
           ELSE IF user = NoUser
           THEN LoopEnd("none", mentionPrefix, tags)
           ELSE MentionLoop(st, users, Tail(mentions),
                  PrefixWith(mentionPrefix, user),
                  Append(tags,
                    [startIndex |-> 3 + Len(mentionPrefix) + 1,
                     length |-> Len(DisplayName(user)),
                     type |-> "user",
                     data |-> ToString(user.userId)]))

\* The body of the activitytexts POST (addActivityText).
CommentBody(message, loop) ==
  [text |-> <<"<", "p", ">">> \o loop.mentionPrefix \o message
              \o <<"<", "/", "p", ">">>,
   eactId |-> TicketEact,
   keys |-> IF Len(loop.tags) > 0 THEN {"text", "activity", "data"}
            ELSE {"text", "activity"},
   tags |-> loop.tags]

\* JSON.stringify of one member: a name that is a function is left out,
\* the name that is Object.prototype is written as the empty object {}.
Member(name) ==
  IF IsString(name) THEN [role |-> ASSIGNED_USER, name |-> name, named |-> TRUE]
  ELSE IF name = Inherited("__proto__")
  THEN [role |-> ASSIGNED_USER, name |-> "{}", named |-> TRUE]
  ELSE [role |-> ASSIGNED_USER, name |-> "", named |-> FALSE]

\* The body of the PUT of `ticket update`.
UpdateBody(st, c) ==
  [keys |-> {"seqNo"}
              \cup (IF c.subject # "" THEN {"description"} ELSE {})
              \cup (IF c.status # "" THEN {"status"} ELSE {})
              \cup (IF c.category # "" THEN {"category"} ELSE {})
              \cup (IF c.assignee # "" THEN {"members"} ELSE {}),
   seqNo |-> TicketId,
   description |-> c.subject,
   status |-> c.status,
   category |-> c.category,
   members |-> IF c.assignee # ""
               THEN << Member(resolveAlias(st, c.assignee)) >> ELSE <<>>]


\* One request of a command, as the client is asked to send it.
Request(method, path, body) == [method |-> method, path |-> path, body |-> body]

EmptyBody == [keys |-> {}]

\* The state request of resolveEndpoint().
StateRequest == Request("GET", "/rest/api/state", EmptyBody)

\* The command lines: a command that takes no options of its own, a create,
\* an update with any of its fields, a comment with its mentions. The line
\* "new ItxClient" constructs a client and does nothing with it.
CommandLine(name, message, mentions, subject, status, category, assignee) ==
  [name |-> name, message |-> message, mentions |-> mentions,
   subject |-> subject, status |-> status, category |-> category,
   assignee |-> assignee]

PlainCommands ==
  {CommandLine(n, <<>>, <<>>, "", "", "", "") :
     n \in {"ticket list", "ticket get", "ticket activities", "user list",
            "new ItxClient"}}

CreateCommands ==
  {CommandLine("ticket create", <<>>, <<>>, s, "", "", "") : s \in {"", "s"}}

UpdateCommands ==
  {CommandLine("ticket update", <<>>, <<>>, s, st, c, a) :
     s \in {"", "s"}, st \in {"", "2"}, c \in {"", "c"},
     a \in {"", "dave", "toString", "__proto__", "bo ek"}}

CommentCommands ==
  {CommandLine("ticket comment", m, ms, "", "", "", "") :
     m \in {<<>>, <<"H", "i">>},
     ms \in UNION {[1..n -> MentionInputs] : n \in 0..MaxMentions}}

CommandLines ==
  PlainCommands \cup CreateCommands \cup UpdateCommands \cup CommentCommands

\* The stored configs a command starts on: with or without credentials, with
\* or without a cached endpoint, the alias dave unset, or set to the email
\* of a user or to nobody's name.
CommandStores ==
  {[Defaults EXCEPT !.ssoEndpoint = sso, !.tokenv2 = token,
                    !.activeEndpoint = active,
                    !.aliases = IF d = "" THEN NoAliases
                                ELSE AssignAlias(NoAliases, "dave", d)] :
     sso \in {<<>>, <<"a">>}, token \in {<<>>, <<"a">>},
     active \in {<<>>, <<"e0">>},
     d \in {"", "di@itx.no", "nobody"}}

\* Nothing left to expand or to arrive.
NoWork == [convs |-> 0, emails |-> 0]

CommandInit ==
  /\ store \in CommandStores
  /\ lastOp = Op("new Conf", <<>>, "", "", FALSE, "")
  /\ shown = <<>>
  /\ cachedFor = <<>>
  /\ client = <<>>
  /\ cmd \in CommandLines
  /\ todo = NoWork
  /\ cpc = "start"
  /\ sent = <<>>
  /\ cerr = <<>>
  /\ cexit = -1
  /\ PipelineOff
  /\ HtmlOff
  /\ DurationOff
  /\ ClientOff

\* What no step of a command changes.
CommandKeeps == <<cmd, lastOp, shown, rvars, notCommand>>

\* printError followed by process.exit(1), or the catch block of the action.
CommandFails(message) ==
  /\ cerr' = Append(cerr, message)
  /\ cexit' = 1
  /\ cpc' = "exited"
  /\ UNCHANGED sent

\* The action returns: the process ends with status 0.
CommandEnds ==
  /\ cexit' = 0
  /\ cpc' = "exited"
  /\ UNCHANGED <<sent, cerr>>

\* The requests go out and the command awaits their answers at `at`.
CommandSends(reqs, at) ==
  /\ sent' = sent \o reqs
  /\ cpc' = at
  /\ UNCHANGED <<cerr, cexit>>

\* A requireAuth that lets every config through.
requireAuthAlways(st) == TRUE

\* requireAuth of commands/ticket.ts and commands/user.ts.
requireAuth(st) == isConfigured(st)

\* The constructor of ItxClient throws on a config without tokenv2.
ItxClientThrows(st) == st.tokenv2 = <<>>

\* The first request of a command that passed requireAuth.
FirstRequest(st, c) ==
  CASE c.name = "ticket list" -> Request("GET", "/rest/itxems/cases", EmptyBody)
    [] c.name = "ticket get" -> Request("GET", "/rest/itxems/cases", EmptyBody)
    [] c.name = "ticket activities" ->
         Request("GET", "/rest/itxems/cases", EmptyBody)
    [] c.name = "ticket comment" ->
         Request("GET", "/rest/itxems/cases", EmptyBody)
    [] c.name = "user list" ->
         Request("POST", "/rest/core/users/search", EmptyBody)
    [] c.name = "ticket create" ->
         Request("POST", "/rest/itxems/cases",
                 [keys |-> {"description"}, description |-> c.subject])
    [] c.name = "ticket update" ->
         Request("PUT", "/rest/itxems/cases", UpdateBody(st, c))

\* Where a command waits once its first request is out: the commands that
\* look the ticket up go on after the answer, the others end with it.
AfterFirst(c) ==
  IF c.name \in {"ticket get", "ticket activities", "ticket comment"}
  THEN "case" ELSE "last"

\* The action of a command up to its first await: the option checks,
\* requireAuth, then the first client.request, which on a client built
\* without a cached endpoint sends the state request of resolveEndpoint().
RunCommand ==
  /\ cpc = "start"
  /\ IF cmd.name = "ticket comment" /\ cmd.message = <<>>
     THEN CommandFails("Message is required")
     ELSE IF cmd.name = "ticket create" /\ cmd.subject = ""
     THEN CommandFails("Subject is required")
     ELSE IF cmd.name = "new ItxClient"
     THEN IF ItxClientThrows(store)
          THEN CommandFails("Not authenticated")
          ELSE CommandEnds
     ELSE IF ~requireAuth(store)
     THEN CommandFails("Not configured")
     ELSE IF ItxClientThrows(store)
     THEN CommandFails("Not authenticated")
     ELSE IF cmd.name = "ticket update"
             /\ Cardinality(UpdateBody(store, cmd).keys) <= 1
     THEN CommandFails("Provide at least one field to update")
     ELSE IF store.activeEndpoint = <<>>
     THEN CommandSends(<<StateRequest>>, "state")
     ELSE CommandSends(<<FirstRequest(store, cmd)>>, AfterFirst(cmd))
  /\ UNCHANGED <<store, todo, CommandKeeps>>

\* The SSO answers the state request: resolveEndpoint() throws on an answer
\* that is not ok or names no endpoint; otherwise the endpoint is stored as
\* activeEndpoint and the first request of the command goes out.
StateAnswer(r) ==
  /\ cpc = "state"
  /\ IF ~r.ok
     THEN CommandFails("Failed to resolve active endpoint") /\ UNCHANGED store
     ELSE IF r.endpoint = <<>>
     THEN CommandFails("No active endpoint returned") /\ UNCHANGED store
     ELSE /\ store' = setConfig(store,
                 [k \in {"activeEndpoint"} |-> Defined(StripSlash(r.endpoint))])
          /\ CommandSends(<<FirstRequest(store, cmd)>>, AfterFirst(cmd))
  /\ UNCHANGED <<todo, CommandKeeps>>

\* A request of the command is rejected (the fetch fails or the answer is
\* not ok), the state request of resolveEndpoint() included: the catch
\* block of the action prints the error and exits.
RequestRejected ==
  /\ cpc \in {"state", "case", "users", "links", "acts", "conv", "last"}
  /\ CommandFails("request failed")
  /\ UNCHANGED <<store, todo, CommandKeeps>>

\* The POST of the comment, after the mentions resolved.
PostComment(loop) ==
  CommandSends(<<Request("POST", "/rest/itxems/activitytexts",
                         CommentBody(cmd.message, loop))>>, "last")

\* `ticket get`, `ticket activities`, `ticket comment`: the answer to the
\* ticket lookup. No ticket ends the command; with the ticket get prints it,
\* activities asks for its links, comment goes on to the mentions.
CaseAnswer(answer) ==
  /\ cpc = "case"
  /\ CASE answer = "none" -> CommandFails("Ticket not found")
       [] answer = "found" /\ cmd.name = "ticket get" -> CommandEnds
       [] answer = "found" /\ cmd.name = "ticket activities" ->
            CommandSends(
              <<Request("POST", "/rest/itxems/cases/search",
                        [keys |-> {"eactIds"}])>>,
              "links")
       [] answer = "found" /\ cmd.name = "ticket comment" ->
            IF Len(cmd.mentions) > 0
            THEN CommandSends(
                   <<Request("POST", "/rest/core/users/search", EmptyBody)>>,
                   "users")
            ELSE PostComment(MentionLoop(store, <<>>, <<>>, <<>>, <<>>))
  /\ UNCHANGED <<store, todo, CommandKeeps>>

\* `ticket comment`: the users arrive and every mention is resolved.
CommentUsers(users) ==
  /\ cpc = "users"
  /\ LET loop == MentionLoop(store, users, cmd.mentions, <<>>, <<>>)
     IN  IF loop.ok THEN PostComment(loop)
         ELSE IF loop.thrown
         THEN CommandFails("emailOrName.toLowerCase is not a function")
         ELSE CommandFails("User not found")
  /\ UNCHANGED <<store, todo, CommandKeeps>>

\* The search of one conversation of `ticket activities`.
ConversationRequest ==
  Request("POST", "/rest/itxems/activities/search",
          [keys |-> {"activityLinkFilters", "getMembers"}])

\* `ticket activities` behind the expansions: the bodies of the emails are
\* asked for all at once, and without emails the list is written.
FetchBodies(emails) ==
  /\ todo' = [convs |-> 0, emails |-> emails]
  /\ IF emails = 0 THEN CommandEnds
     ELSE CommandSends(
            [i \in 1..emails |->
               Request("GET", "/rest/itxems/emailcontent", EmptyBody)],
            "bodies")

\* `ticket activities`: the ticket with its links arrives. Without a Case
\* link to the ticket nothing more is asked for.
LinksAnswer(linked) ==
  /\ cpc = "links"
  /\ IF linked
     THEN /\ CommandSends(
               <<Request("POST", "/rest/itxems/activities/search",
                         [keys |-> {"eactIds", "getMembers"}])>>, "acts")
          /\ UNCHANGED todo
     ELSE FetchBodies(0)
  /\ UNCHANGED <<store, CommandKeeps>>

\* `ticket activities`: the linked activities arrive, `containers` of them
\* email conversations and `emails` of them emails.
ActsAnswer(containers, emails) ==
  /\ cpc = "acts"
  /\ containers + emails <= NumActs
  /\ IF containers > 0
     THEN /\ todo' = [convs |-> containers, emails |-> emails]
          /\ CommandSends(<<ConversationRequest>>, "conv")
     ELSE FetchBodies(emails)
  /\ UNCHANGED <<store, CommandKeeps>>

\* `ticket activities`: the emails of one conversation arrive, the next
\* conversation is searched.
ConvAnswer(emails) ==
  /\ cpc = "conv"
  /\ IF todo.convs > 1
     THEN /\ todo' = [convs |-> todo.convs - 1, emails |-> todo.emails + emails]
          /\ CommandSends(<<ConversationRequest>>, "conv")
     ELSE FetchBodies(todo.emails + emails)
  /\ UNCHANGED <<store, CommandKeeps>>

\* `ticket activities`: one emailcontent request settles, answered or
\* rejected; the list is written when all have.
BodyAnswer ==
  /\ cpc = "bodies"
  /\ todo' = [todo EXCEPT !.emails = @ - 1]
  /\ IF todo.emails = 1 THEN CommandEnds
     ELSE UNCHANGED <<cpc, sent, cerr, cexit>>
  /\ UNCHANGED <<store, CommandKeeps>>

\* The answer to the last request of a command is printed.
CommandAnswer ==
  /\ cpc = "last"
  /\ CommandEnds
  /\ UNCHANGED <<store, todo, CommandKeeps>>

CommandNext ==
  \/ RunCommand
  \/ \E r \in StateResponses : StateAnswer(r)
  \/ RequestRejected
  \/ \E answer \in {"found", "none"} : CaseAnswer(answer)
  \/ \E users \in UsersAnswers : CommentUsers(users)
  \/ \E linked \in BOOLEAN : LinksAnswer(linked)
  \/ \E containers, emails \in 0..NumActs : ActsAnswer(containers, emails)
  \/ \E emails \in 0..MaxConv : ConvAnswer(emails)
  \/ BodyAnswer
  \/ CommandAnswer

SpecCommand == CommandInit /\ [][CommandNext]_vars


\* C27: no API request is sent without credentials. On a config whose
\* ssoEndpoint or tokenv2 is empty, every ticket and user command that has
\* run has exited with status 1 and an error message and has sent no
\* request, and a client constructed on a config without tokenv2 has thrown.
C27_NoRequestWithoutCredentials ==
  (cpc # "start" /\ cpc # "off") =>
    /\ (cmd.name # "new ItxClient"
        /\ (store.ssoEndpoint = <<>> \/ store.tokenv2 = <<>>)) =>
         (cexit = 1 /\ Len(cerr) > 0 /\ sent = <<>>)
    /\ (cmd.name = "new ItxClient" /\ store.tokenv2 = <<>>) =>
         (cexit = 1 /\ cerr = <<"Not authenticated">>)

\* `ticket update --status 2` on a config with an endpoint and no token has
\* exited with status 1 on "Not configured", nothing sent.
C27_Witness ==
  /\ cmd.name = "ticket update"
  /\ cmd.status = "2"
  /\ store.ssoEndpoint = <<"a">>
  /\ store.tokenv2 = <<>>
  /\ cpc = "exited"
  /\ cexit = 1
  /\ cerr = <<"Not configured">>
  /\ sent = <<>>


\* The text between startIndex and startIndex + length, as substring() cuts
\* it (the first character has index 0).
Substring(posted, startIndex, length) ==
  SubSeq(posted, startIndex + 1, startIndex + length)

\* What C25 says of a posted comment whose mentions were resolved in `users`.
TagsPointAtMentions(users, request) ==
  LET posted == request.body.text
      tags == request.body.tags
      close == cmd.message \o <<"<", "/", "p", ">">>
  IN  /\ request.method = "POST"
      /\ request.path = "/rest/itxems/activitytexts"
      /\ SubSeq(posted, 1, 3) = <<"<", "p", ">">>
      /\ Len(posted) >= 3 + Len(close)
      /\ SubSeq(posted, Len(posted) - Len(close) + 1, Len(posted)) = close
      /\ Len(tags) = Len(cmd.mentions)
      /\ "data" \in request.body.keys
      /\ \A i \in 1..Len(tags) :
           LET user == MentionedUser(store, users, cmd.mentions[i])
           IN  /\ user \notin {NoUser, TypeError}
               /\ tags[i].startIndex >= 3
               /\ tags[i].startIndex + tags[i].length <= Len(posted) - Len(close)
               /\ Substring(posted, tags[i].startIndex, tags[i].length)
                    = <<"@">> \o Chars(user.firstName) \o <<" ">>
                        \o Chars(user.lastName)
               /\ tags[i].type = "user"
               /\ tags[i].data = ToString(user.userId)
      /\ \A i, j \in 1..Len(tags) :
           i < j => tags[i].startIndex + tags[i].length <= tags[j].startIndex

\* C25: the comment that `ticket comment` posts. With mentions that all
\* resolve the text is <p>, the mention prefix, the message, </p>, and there
\* is one tag for each mention, in mention order, whose range of the text
\* reads @FirstName LastName of the mentioned user, whose data is the user's
\* id as a string, and no two tags overlap; without mentions the text is
\* <p>message</p> and the body has no data field.
C25_TagsPointAtMentions ==
  [][ /\ \A users \in UsersAnswers :
           (cpc' = "last" /\ CommentUsers(users)) =>
             TagsPointAtMentions(users, sent'[Len(sent')])
      /\ (cmd.name = "ticket comment" /\ cpc = "case" /\ cpc' = "last") =>
           /\ sent'[Len(sent')].body.keys = {"text", "activity"}
           /\ sent'[Len(sent')].body.text =
                <<"<", "p", ">">> \o cmd.message \o <<"<", "/", "p", ">">>
    ]_vars

\* `ticket comment Hi --mention dave --mention BO` with dave an alias of
\* di@itx.no has posted its comment with the tags of Di Lee and Bo Ek.
C25_Witness ==
  /\ cmd.name = "ticket comment"
  /\ cmd.mentions = <<"dave", "BO">>
  /\ cpc = "last"
  /\ Len(sent) = 3
  /\ sent[2].path = "/rest/core/users/search"
  /\ sent[3].body.tags =
       << [startIndex |-> 4, length |-> 7, type |-> "user", data |-> "7"],
          [startIndex |-> 14, length |-> 6, type |-> "user", data |-> "12"] >>
  /\ sent[3].body.text =
       <<"<", "p", ">", "BOM", "@", "D", "i", " ", "L", "e", "e", "BOM", " ",
         "BOM", "@", "B", "o", " ", "E", "k", "BOM", " ", "H", "i",
         "<", "/", "p", ">">>


\* The activitytexts POSTs among the requests sent.
CommentPosts ==
  {i \in 1..Len(sent) : /\ sent[i].method = "POST"
                        /\ sent[i].path = "/rest/itxems/activitytexts"}

\* C26: `ticket comment` posts all or nothing. A ticket that is not found, or
\* one mention that finds no user in the answer of the user search, ends the
\* command with exit status 1 and an error and without an activitytexts
\* POST; a comment that is posted has a tag for every mention given.
C26_AllOrNothing ==
  [][ /\ (cmd.name = "ticket comment" /\ CaseAnswer("none")) =>
           (cexit' = 1 /\ Len(cerr') > 0 /\ sent' = sent)
      /\ \A users \in UsersAnswers :
           (/\ cpc = "users"
            /\ CommentUsers(users)
            /\ \E i \in 1..Len(cmd.mentions) :
                 MentionedUser(store, users, cmd.mentions[i])
                   \in {NoUser, TypeError}) =>
             (cexit' = 1 /\ Len(cerr') > 0 /\ sent' = sent)
      /\ (cexit' = 1 /\ cmd.name = "ticket comment"
            /\ cerr' # <<"request failed">>) =>
           (CommentPosts' = {} /\ cpc' = "exited")
      /\ \A i \in CommentPosts' :
           Len(sent'[i].body.tags) = Len(cmd.mentions)
    ]_vars

\* `ticket comment Hi --mention BO --mention nobody`: Bo Ek is found, nobody
\* is not, and the command has exited with status 1 after the ticket lookup
\* and the user search, nothing posted.
C26_Witness ==
  /\ cmd.name = "ticket comment"
  /\ cmd.mentions = <<"BO", "nobody">>
  /\ cmd.message = <<"H", "i">>
  /\ cpc = "exited"
  /\ cexit = 1
  /\ cerr = <<"User not found">>
  /\ Len(sent) = 2
  /\ CommentPosts = {}


\* The value an alias name or a plain value stands for: the stored value of
\* the alias of that name, or the value itself when there is no such alias.
AliasResolved(st, nameOrValue) ==
  IF nameOrValue \in DOMAIN st.aliases /\ st.aliases[nameOrValue].own
  THEN st.aliases[nameOrValue].val
  ELSE nameOrValue

\* The PUT requests among the requests sent.
Puts == {i \in 1..Len(sent) : sent[i].method = "PUT"}

\* C30: `ticket update` on a configured store. With none of subject, status,
\* category and assignee given it has exited with status 1 and an error,
\* nothing sent; otherwise it sends one PUT (behind the state request, when
\* the endpoint is not cached) whose body holds seqNo = id and exactly the
\* given fields, the assignee as one member of role 1 whose name is the
\* alias-resolved value.
C30_UpdateSendsGivenFields ==
  (cpc \notin {"off", "start"} /\ cmd.name = "ticket update"
     /\ isConfigured(store)) =>
    IF cmd.subject = "" /\ cmd.status = "" /\ cmd.category = ""
         /\ cmd.assignee = ""
    THEN cexit = 1 /\ Len(cerr) > 0 /\ sent = <<>>
    ELSE /\ Puts \subseteq {Len(sent)}
         /\ cpc = "last" => Puts # {}
         /\ \A i \in Puts :
              /\ sent[i].path = "/rest/itxems/cases"
              /\ sent[i].body.seqNo = TicketId
              /\ sent[i].body.keys =
                   {"seqNo"}
                     \cup (IF cmd.subject # "" THEN {"description"} ELSE {})
                     \cup (IF cmd.status # "" THEN {"status"} ELSE {})
                     \cup (IF cmd.category # "" THEN {"category"} ELSE {})
                     \cup (IF cmd.assignee # "" THEN {"members"} ELSE {})
              /\ cmd.subject # "" => sent[i].body.description = cmd.subject
              /\ cmd.status # "" => sent[i].body.status = cmd.status
              /\ cmd.category # "" => sent[i].body.category = cmd.category
              /\ cmd.assignee # "" =>
                   sent[i].body.members =
                     << [role |-> 1,
                         name |-> AliasResolved(store, cmd.assignee),
                         named |-> TRUE] >>

====
